---- MODULE Spec2Model ----
(***************************************************************************)
(* A model of the GA-driven AES-128 key-schedule optimiser:                *)
(*   - CustomAES (aes_custom.py): the parameterised key expansion and the  *)
(*     encrypt / decrypt wrappers that trigger it;                         *)
(*   - KeyScheduleChromosome and GeneticAlgorithm (ga_optimizer.py): the   *)
(*     crossover and mutation operators and the evolve() loop;             *)
(*   - SecurityMetrics.calculate_avalanche_effect (aes_custom.py);         *)
(*   - IntegrationClient.send_message (integration_client.py);             *)
(*   - SecureServer, SecureClient and run_test (network_simulator.py);     *)
(*   - PacketTracerBridge (network_bridge.py).                             *)
(* The specifications share the variables, each driving one part while the *)
(* others stay idle: SpecAES one CustomAES instance, SpecTwin two of them, *)
(* SpecOps the genetic operators on drawn parents, SpecGA, SpecGACopy and  *)
(* SpecGAAgain evolve() step by step, SpecTour the tournament, SpecFit the *)
(* fitness function, SpecHeap the list objects of a generation step,       *)
(* SpecAval the avalanche measurement, SpecClient the retry loop,          *)
(* SpecServer the concurrent run and SpecBridge the packet bridge.         *)
(***************************************************************************)
EXTENDS Integers, Sequences, FiniteSets, TLC

VARIABLES
    \* ---- one CustomAES instance (aes_custom.py) ----
    rotations,          \* self.rotations
    rcon_multipliers,   \* self.rcon_multipliers
    key,                \* self.key
    expanded_key,       \* self.expanded_key
    last_call,          \* the last method called on the instance and its argument
    outcome,            \* how that call ended: "returned" or the exception raised
    result,             \* the value that call returned (None when it raised)
    \* ---- the genetic operators applied on their own (ga_optimizer.py) ----
    op_rates,           \* crossover_rate and mutation_rate of the engine
    op_parents,         \* the operands: <<parent1, parent2>>
    op_draws,           \* the values the random source returned during the call
    op_children,        \* the chromosomes the operator returned
    op_name,            \* the operator applied last
    \* ---- one GeneticAlgorithm engine running evolve() ----
    config,             \* population_size, crossover_rate, mutation_rate, ...
    pc,                 \* the position of evolve()
    generation,         \* the loop variable of the evolution loop
    population,         \* the local list `population`
    next_generation,    \* the local list `next_generation`
    parents,            \* the locals parent1, parent2
    children,           \* the locals child1, child2
    best_chromosome,    \* self.best_chromosome
    best_is_member,     \* whether self.best_chromosome is one of the objects in
                        \* `population` itself, not a copy of one
    best_fitness_history,   \* self.best_fitness_history
    avg_fitness_history,    \* self.avg_fitness_history
    returned,           \* the chromosome evolve() returned
    hits,               \* number of mutation draws below mutation_rate so far
    \* ---- two CustomAES instances given the same calls ----
    twins,              \* <<instance 1, instance 2>>, each with its fields
    twin_call,          \* the last call made on both instances
    twin_wire,          \* the last plaintext encrypted and the two ciphertexts
    twin_out,           \* what that call returned or raised, per instance
    \* ---- the list objects of one generation step of evolve() ----
    heap,               \* the gene lists that exist: heap[id] is the list's content
    hp_config,          \* crossover_rate, mutation_rate, elitism_count
    hp_pc,              \* the position inside the generation step
    hp_population,      \* `population`: chromosomes, each naming its two lists
    hp_next,            \* `next_generation`
    hp_best,            \* self.best_chromosome
    hp_parents,         \* parent1, parent2
    hp_children,        \* child1, child2
    hp_draws,           \* what random.random() and randint returned in crossover
    \* ---- one calculate_avalanche_effect call (aes_custom.py) ----
    av_cipher,          \* the cipher argument, a CustomAES instance
    av_key,             \* the key argument
    av_num_tests,       \* the num_tests argument
    av_trial,           \* the last trial: plaintexts, ciphertexts, bit counts
    av_percentages,     \* the local list avalanche_percentages
    av_result,          \* what the call returned
    \* ---- one IntegrationClient (integration_client.py) ----
    ic_latencies,       \* self.latencies
    ic_messages_sent,   \* self.messages_sent
    ic_retry_count,     \* the retry_count argument of the send_message call
    ic_attempt,         \* the loop variable `attempt`
    ic_pc,              \* the position of send_message
    ic_sockets,         \* the sockets the call created, each "open" or "closed"
    ic_outcomes,        \* how the try block of each attempt of the call ended
    ic_exit,            \* what the attempt does once its finally clause has run
    ic_result,          \* what the call returned
    ic_calls,           \* number of send_message calls so far
    \* ---- one run_test: a SecureServer and its client threads ----
    sv_aes,             \* server.aes, the CustomAES instance all threads share
    sv_key,             \* server.key, which every client copies
    sv_metrics,         \* server.metrics
    sv_lock,            \* server.lock: 0 when free, else the thread holding it
    cl_aes,             \* client.aes of each client
    cl_results,         \* client.results of each client
    th_pc,              \* the position of each client thread
    th_msg,             \* the number of the message each thread is sending
    th_data,            \* encrypted_data of the request in flight, per thread
    th_metrics,         \* what handle_request returned to the thread
    th_loaded,          \* the list a thread read inside the lock, to append to
    rt_out,             \* what run_test collected after joining the threads
    \* ---- one PacketTracerBridge (network_bridge.py) ----
    br_packets_sent,     \* self.packets_sent
    br_packets_received, \* self.packets_received
    br_statistics,       \* self.statistics
    br_call,             \* the method called last
    br_result,           \* what that call returned
    br_clock             \* time.time(), counted in calls made

aesVars == <<rotations, rcon_multipliers, key, expanded_key, last_call, outcome, result>>
opVars  == <<op_rates, op_parents, op_draws, op_children, op_name>>
gaVars  == <<config, pc, generation, population, next_generation, parents, children,
             best_chromosome, best_is_member, best_fitness_history,
             avg_fitness_history, returned, hits>>
twinVars == <<twins, twin_call, twin_wire, twin_out>>
heapVars == <<heap, hp_config, hp_pc, hp_population, hp_next, hp_best,
              hp_parents, hp_children, hp_draws>>
avalVars == <<av_cipher, av_key, av_num_tests, av_trial, av_percentages, av_result>>
\* the variables of the parts modelled further down
clientVars == <<ic_latencies, ic_messages_sent, ic_retry_count, ic_attempt, ic_pc,
                ic_sockets, ic_outcomes, ic_exit, ic_result, ic_calls>>
serverVars == <<sv_aes, sv_key, sv_metrics, sv_lock, cl_aes, cl_results,
                th_pc, th_msg, th_data, th_metrics, th_loaded, rt_out>>
bridgeVars == <<br_packets_sent, br_packets_received, br_statistics, br_call,
                br_result, br_clock>>
restVars == <<heapVars, avalVars, clientVars, serverVars, bridgeVars>>
\* all variables but those of one of these parts
exceptHeap == <<aesVars, opVars, gaVars, twinVars, avalVars, clientVars, serverVars, bridgeVars>>
exceptAval == <<aesVars, opVars, gaVars, twinVars, heapVars, clientVars, serverVars, bridgeVars>>
exceptClient == <<aesVars, opVars, gaVars, twinVars, heapVars, avalVars, serverVars, bridgeVars>>
exceptBridge == <<aesVars, opVars, gaVars, twinVars, heapVars, avalVars, clientVars,
                  serverVars>>
exceptServer == <<aesVars, opVars, gaVars, twinVars, heapVars, avalVars, clientVars, bridgeVars>>
vars    == <<aesVars, opVars, gaVars, twinVars, restVars>>

\* an optional value: Python's None, or a value v held as Some(v)
None == << >>
Some(v) == << v >>

(***************************************************************************)
(* Bounds of the model                                                     *)
(***************************************************************************)
\* number of well-formed 16-byte test keys
NumKeys == 2

(***************************************************************************)
(* Python list helpers                                                     *)
(***************************************************************************)
Min(a, b) == IF a < b THEN a ELSE b
Max(a, b) == IF a > b THEN a ELSE b

\* s[a:b] for 0 <= a, 0 <= b: the elements at the 0-based indices a .. b-1 that
\* exist; an out-of-range slice is shorter or empty, never an error
PySlice(s, a, b) ==
    LET lo == Min(a, Len(s))
        hi == Min(b, Len(s))
    IN  IF hi <= lo THEN << >> ELSE [k \in 1..(hi - lo) |-> s[lo + k]]

\* a ^ b on two bits strings, bit by bit
RECURSIVE XorBits(_, _)
XorBits(a, b) ==
    IF a = 0 THEN b
    ELSE IF b = 0 THEN a
    ELSE (((a % 2) + (b % 2)) % 2) + 2 * XorBits(a \div 2, b \div 2)

\* a ^ b tabulated for 4-bit operands
NibbleXor == [a \in 0..15 |-> [b \in 0..15 |-> XorBits(a, b)]]

\* a ^ b on bytes
Xor(a, b) == NibbleXor[a % 16][b % 16] + 16 * NibbleXor[a \div 16][b \div 16]

(***************************************************************************)
(* CustomAES: tables                                                       *)
(***************************************************************************)
SBOX ==
<<
    99, 124, 119, 123, 242, 107, 111, 197, 48, 1, 103, 43, 254, 215, 171, 118,
    202, 130, 201, 125, 250, 89, 71, 240, 173, 212, 162, 175, 156, 164, 114, 192,
    183, 253, 147, 38, 54, 63, 247, 204, 52, 165, 229, 241, 113, 216, 49, 21,
    4, 199, 35, 195, 24, 150, 5, 154, 7, 18, 128, 226, 235, 39, 178, 117,
    9, 131, 44, 26, 27, 110, 90, 160, 82, 59, 214, 179, 41, 227, 47, 132,
    83, 209, 0, 237, 32, 252, 177, 91, 106, 203, 190, 57, 74, 76, 88, 207,
    208, 239, 170, 251, 67, 77, 51, 133, 69, 249, 2, 127, 80, 60, 159, 168,
    81, 163, 64, 143, 146, 157, 56, 245, 188, 182, 218, 33, 16, 255, 243, 210,
    205, 12, 19, 236, 95, 151, 68, 23, 196, 167, 126, 61, 100, 93, 25, 115,
    96, 129, 79, 220, 34, 42, 144, 136, 70, 238, 184, 20, 222, 94, 11, 219,
    224, 50, 58, 10, 73, 6, 36, 92, 194, 211, 172, 98, 145, 149, 228, 121,
    231, 200, 55, 109, 141, 213, 78, 169, 108, 86, 244, 234, 101, 122, 174, 8,
    186, 120, 37, 46, 28, 166, 180, 198, 232, 221, 116, 31, 75, 189, 139, 138,
    112, 62, 181, 102, 72, 3, 246, 14, 97, 53, 87, 185, 134, 193, 29, 158,
    225, 248, 152, 17, 105, 217, 142, 148, 155, 30, 135, 233, 206, 85, 40, 223,
    140, 161, 137, 13, 191, 230, 66, 104, 65, 153, 45, 15, 176, 84, 187, 22 >>

RCON == << 1, 2, 4, 8, 16, 32, 64, 128, 27, 54 >>

\* a loop that stops one word early
NumWordsShort == 44 - 1

\* range(4, 44): the schedule has 44 words
NumWords == 44

\* what a raising call leaves behind
Raise(exc) == [raised |-> exc, value |-> None]
Return(v)  == [raised |-> "none", value |-> v]

(***************************************************************************)
(* CustomAES.rot_word, sub_word, custom_key_expansion                      *)
(***************************************************************************)
\* a rotation to the right instead of to the left
rot_word_right(word, positions) ==
    LET p == (4 - (positions % 4)) % 4
    IN  PySlice(word, p, Len(word)) \o PySlice(word, 0, p)

\* rot_word: positions % 4, then word[positions:] + word[:positions]
rot_word(word, positions) ==
    LET p == positions % 4
    IN  PySlice(word, p, Len(word)) \o PySlice(word, 0, p)

\* sub_word: [SBOX[b] for b in word]
sub_word(word) == [j \in 1..Len(word) |-> SBOX[word[j] + 1]]

\* a round constant that ignores the multiplier
rcon_value_plain(round_num, rcon_mult) == RCON[round_num + 1]

\* a round constant that is not reduced to a byte
rcon_value_unreduced(round_num, rcon_mult) == RCON[round_num + 1] * rcon_mult

\* (RCON[round_num] * rcon_mult) % 256
rcon_value(round_num, rcon_mult) == (RCON[round_num + 1] * rcon_mult) % 256

\* a default of 0 for the rounds an array does not cover
ParamOrDefaultZero(params, round_num) ==
    IF round_num < Len(params) THEN params[round_num + 1] ELSE 0

\* self.rotations[round_num] if round_num < len(self.rotations) else 1
ParamOrDefault(params, round_num) ==
    IF round_num < Len(params) THEN params[round_num + 1] ELSE 1

\* the body of `for i in range(4, 44)` from word i on; `expanded` is the list of
\* bytes so far. An index past the end of temp or prev_word raises IndexError.
RECURSIVE ExpansionLoop(_, _, _, _)
ExpansionLoop(expanded, i, rots, rcons) ==
    IF i = NumWords THEN Return(Some(expanded))
    ELSE
      LET temp0     == PySlice(expanded, (i - 1) * 4, i * 4)
          round_num == (i \div 4) - 1
          keyed     == (i % 4 = 0)
          temp1     == IF keyed
                       THEN sub_word(rot_word(temp0, ParamOrDefault(rots, round_num)))
                       ELSE temp0
          \* temp[0] ^= rcon_value needs temp[0]
          badRcon   == keyed /\ Len(temp1) = 0
          temp      == IF keyed /\ ~badRcon
                       THEN [temp1 EXCEPT ![1] =
                               Xor(@, rcon_value(round_num, ParamOrDefault(rcons, round_num)))]
                       ELSE temp1
          prev_word == PySlice(expanded, (i - 4) * 4, (i - 3) * 4)
      IN  IF badRcon \/ Len(temp) < 4 \/ Len(prev_word) < 4
          THEN Raise("IndexError")
          ELSE ExpansionLoop(
                 expanded \o [j \in 1..4 |-> Xor(temp[j], prev_word[j])],
                 i + 1, rots, rcons)

\* custom_key_expansion(key) on an instance with the given parameters
custom_key_expansion(k, rots, rcons) == ExpansionLoop(k, 4, rots, rcons)

(***************************************************************************)
(* The keys, plaintexts and instance parameters the model draws            *)
(***************************************************************************)
\* a key of n bytes; KeyBytes(16, 1) is 00 01 02 ... 0f
KeyBytes(n, k) == [i \in 1..n |-> (((i - 1) * k) + (37 * (k - 1))) % 256]

\* the well-formed keys
TestKeys == {KeyBytes(16, k) : k \in 1..NumKeys}

\* keys of a wrong length: shorter than 16 bytes, and longer (AES-192 and
\* AES-256 sizes among them)
WrongLengths == {0, 12, 15, 17, 24, 32}
WrongKeys == {KeyBytes(n, 1) : n \in WrongLengths}

AllKeys == TestKeys \cup WrongKeys

Genes == 1..3

\* a length-10 gene array: `base` everywhere but `alt` at position pos
GeneArray(base, pos, alt) == [i \in 1..10 |-> IF i = pos THEN alt ELSE base]

\* the rounds (1-based positions) at which the drawn arrays deviate
DevRounds == {1, 8, 10}

\* the gene arrays the model draws
GeneArrays == {GeneArray(b, p, a) : b \in Genes, p \in DevRounds, a \in Genes}

Neutral == [i \in 1..10 |-> 1]

\* the lengths of the parameter arrays that cover only the first rounds
ShortLengths == {0, 6}

\* parameter arrays of which at least one has fewer than 10 entries
ShortParams ==
    {<<PySlice(GeneArray(3, 1, 2), 0, n), PySlice(GeneArray(2, 8, 3), 0, m)>> :
        n \in ShortLengths \cup {10}, m \in ShortLengths \cup {10}}
      \ {<<GeneArray(3, 1, 2), GeneArray(2, 8, 3)>>}

\* rotations 3 and multipliers 2, but rotation 2 and multiplier 1 in round 7:
\* the pair drawn below with multiplier 3 in round 7, but for that gene
Round7Pair == <<GeneArray(3, 8, 2), GeneArray(2, 8, 1)>>

\* the (rotations, rcon_multipliers) pairs an instance is built with
InstanceParams ==
    {<<GeneArray(b, p, a), GeneArray(a, p, b)>> :
        b \in Genes, a \in Genes, p \in DevRounds}
      \cup ShortParams \cup {Round7Pair}

\* custom_key_expansion tabulated over the drawn keys and parameters, so that
\* each expansion is computed once
ExpansionTable ==
    [k \in AllKeys, pr \in InstanceParams |-> custom_key_expansion(k, pr[1], pr[2])]

\* the plaintexts: b"test" * 4 (the probe of evaluate_fitness) and a short one
Plaintexts == { <<116, 101, 115, 116, 116, 101, 115, 116,
                  116, 101, 115, 116, 116, 101, 115, 116>>,
                <<72, 105>> }

(***************************************************************************)
(* The external cipher primitive (Crypto.Cipher.AES, Crypto.Util.Padding)  *)
(***************************************************************************)
BlockSize == 16

\* a padding that adds nothing to data that fills its last block
pad_block_aligned(data) ==
    LET n == (BlockSize - (Len(data) % BlockSize)) % BlockSize
    IN  data \o [j \in 1..n |-> n]

\* pad(data, 16): PKCS#7, n bytes of value n with n = 16 - len % 16
pad(data) ==
    LET n == BlockSize - (Len(data) % BlockSize)
    IN  data \o [j \in 1..n |-> n]

\* an unpad that leaves the last padding byte in place
unpad_keep_last(padded) == PySlice(padded, 0, (Len(padded) - padded[Len(padded)]) + 1)

\* unpad(padded, 16) of a correctly padded value
unpad(padded) == PySlice(padded, 0, Len(padded) - padded[Len(padded)])

\* AES.new(key, MODE_ECB) accepts keys of 16, 24 and 32 bytes only
AesKeySizes == {16, 24, 32}

\* cipher.encrypt(padded) under key k: the primitive is not interpreted; its
\* value is the term below, which only the same key inverts
EcbEncrypt(k, padded) == [ecb_key |-> k, ecb_data |-> padded]

\* what a decryption of ct under a key other than the encrypting one unpads to
Garbage == << "garbage" >>

(***************************************************************************)
(* get_key_schedule_entropy: Shannon entropy of the stored schedule        *)
(***************************************************************************)
\* np.log2(c) for c = 1 .. 192, in 1/1000000 bit
Log2Micro ==
<<
    0, 1000000, 1584963, 2000000, 2321928, 2584963, 2807355, 3000000,
    3169925, 3321928, 3459432, 3584963, 3700440, 3807355, 3906891, 4000000,
    4087463, 4169925, 4247928, 4321928, 4392317, 4459432, 4523562, 4584963,
    4643856, 4700440, 4754888, 4807355, 4857981, 4906891, 4954196, 5000000,
    5044394, 5087463, 5129283, 5169925, 5209453, 5247928, 5285402, 5321928,
    5357552, 5392317, 5426265, 5459432, 5491853, 5523562, 5554589, 5584963,
    5614710, 5643856, 5672425, 5700440, 5727920, 5754888, 5781360, 5807355,
    5832890, 5857981, 5882643, 5906891, 5930737, 5954196, 5977280, 6000000,
    6022368, 6044394, 6066089, 6087463, 6108524, 6129283, 6149747, 6169925,
    6189825, 6209453, 6228819, 6247928, 6266787, 6285402, 6303781, 6321928,
    6339850, 6357552, 6375039, 6392317, 6409391, 6426265, 6442943, 6459432,
    6475733, 6491853, 6507795, 6523562, 6539159, 6554589, 6569856, 6584963,
    6599913, 6614710, 6629357, 6643856, 6658211, 6672425, 6686501, 6700440,
    6714246, 6727920, 6741467, 6754888, 6768184, 6781360, 6794416, 6807355,
    6820179, 6832890, 6845490, 6857981, 6870365, 6882643, 6894818, 6906891,
    6918863, 6930737, 6942515, 6954196, 6965784, 6977280, 6988685, 7000000,
    7011227, 7022368, 7033423, 7044394, 7055282, 7066089, 7076816, 7087463,
    7098032, 7108524, 7118941, 7129283, 7139551, 7149747, 7159871, 7169925,
    7179909, 7189825, 7199672, 7209453, 7219169, 7228819, 7238405, 7247928,
    7257388, 7266787, 7276124, 7285402, 7294621, 7303781, 7312883, 7321928,
    7330917, 7339850, 7348728, 7357552, 7366322, 7375039, 7383704, 7392317,
    7400879, 7409391, 7417853, 7426265, 7434628, 7442943, 7451211, 7459432,
    7467606, 7475733, 7483816, 7491853, 7499846, 7507795, 7515700, 7523562,
    7531381, 7539159, 7546894, 7554589, 7562242, 7569856, 7577429, 7584963 >>

\* np.bincount(data)[data[i]]: how often the byte at position i occurs
ByteCount(data, i) == Cardinality({j \in 1..Len(data) : data[j] = data[i]})

\* sum(log2(count of data[i])) over the positions lo .. hi, by halves
RECURSIVE SumLogCounts(_, _, _)
SumLogCounts(data, lo, hi) ==
    IF lo > hi THEN 0
    ELSE IF lo = hi THEN Log2Micro[ByteCount(data, lo)]
    ELSE LET mid == (lo + hi) \div 2
         IN  SumLogCounts(data, lo, mid) + SumLogCounts(data, mid + 1, hi)

\* -sum(p * log2(p + 1e-10)) over the 256 byte values with p = count / len, in
\* 1/1000000 bit: log2(len) - sum(count * log2(count)) / len, a byte value that
\* does not occur adding nothing
ShannonEntropy(data) ==
    Log2Micro[Len(data)] - (SumLogCounts(data, 1, Len(data)) \div Len(data))

\* the schedules the drawn keys and parameters expand to
Schedules ==
    {ExpansionTable[k, pr].value[1] :
        k \in {x \in AllKeys : Len(x) >= 16}, pr \in InstanceParams}

\* the entropy tabulated over these schedules, so that each is computed once
EntropyTable == [e \in Schedules |-> ShannonEntropy(e)]

\* self.get_key_schedule_entropy() as a value: 0 while expanded_key is None
get_key_schedule_entropy(e) == IF e = None THEN 0 ELSE EntropyTable[e[1]]

(***************************************************************************)
(* CustomAES.__init__, encrypt, decrypt                                    *)
(***************************************************************************)
\* CustomAES(params): key and expanded_key start as None
AESInit ==
    /\ \E pr \in InstanceParams :
          /\ rotations = pr[1]
          /\ rcon_multipliers = pr[2]
    /\ key = None
    /\ expanded_key = None
    /\ last_call = [method |-> "__init__", arg |-> None]
    /\ outcome = "returned"
    /\ result = None

Expansion(k) == ExpansionTable[k, <<rotations, rcon_multipliers>>]

\* a direct call of custom_key_expansion(k): no field of the instance changes
CallKeyExpansion(k) ==
    LET e == Expansion(k)
    IN  /\ last_call' = [method |-> "custom_key_expansion", arg |-> Some(k)]
        /\ outcome' = IF e.raised = "none" THEN "returned" ELSE e.raised
        /\ result' = e.value
        /\ UNCHANGED <<rotations, rcon_multipliers, key, expanded_key>>
        /\ UNCHANGED <<opVars, gaVars, twinVars, restVars>>

\* the cipher part of encrypt and decrypt: AES.new(k, AES.MODE_ECB), then
\* `body`, the value the primitive and the padding produce
CipherCall(k, body) ==
    IF Len(k) \notin AesKeySizes THEN Raise("ValueError") ELSE body

\* an encrypt that sets self.key and leaves self.expanded_key as it was
EncryptWithoutExpansion(plaintext, k) ==
    LET c == CipherCall(k, Return(Some(EcbEncrypt(k, pad(plaintext)))))
    IN  /\ last_call' = [method |-> "encrypt", arg |-> Some(k)]
        /\ key' = Some(k)
        /\ outcome' = IF c.raised = "none" THEN "returned" ELSE c.raised
        /\ result' = c.value
        /\ UNCHANGED <<rotations, rcon_multipliers, expanded_key>>
        /\ UNCHANGED <<opVars, gaVars, twinVars, restVars>>

\* encrypt(plaintext, k): self.key and self.expanded_key are set first
Encrypt(plaintext, k) ==
    LET e == Expansion(k)
        c == CipherCall(k, Return(Some(EcbEncrypt(k, pad(plaintext)))))
    IN  /\ last_call' = [method |-> "encrypt", arg |-> Some(k)]
        /\ key' = Some(k)
        /\ IF e.raised # "none"
           THEN /\ outcome' = e.raised
                /\ result' = None
                /\ UNCHANGED expanded_key
           ELSE /\ expanded_key' = e.value
                /\ outcome' = IF c.raised = "none" THEN "returned" ELSE c.raised
                /\ result' = c.value
        /\ UNCHANGED <<rotations, rcon_multipliers>>
        /\ UNCHANGED <<opVars, gaVars, twinVars, restVars>>

\* decrypt(ciphertext, k); a ciphertext decrypted under another key fails in
\* unpad or unpads to garbage
Decrypt(ciphertext, k) ==
    LET e == Expansion(k)
    IN  /\ last_call' = [method |-> "decrypt", arg |-> Some(k)]
        /\ key' = Some(k)
        /\ IF e.raised # "none"
           THEN /\ outcome' = e.raised
                /\ result' = None
                /\ UNCHANGED expanded_key
           ELSE /\ expanded_key' = e.value
                /\ \E c \in IF ciphertext.ecb_key = k
                             THEN {CipherCall(k, Return(Some(unpad(ciphertext.ecb_data))))}
                             ELSE {CipherCall(k, Raise("ValueError")),
                                   CipherCall(k, Return(Some(Garbage)))} :
                      /\ outcome' = IF c.raised = "none" THEN "returned" ELSE c.raised
                      /\ result' = c.value
        /\ UNCHANGED <<rotations, rcon_multipliers>>
        /\ UNCHANGED <<opVars, gaVars, twinVars, restVars>>

\* get_key_schedule_entropy(): reads self.expanded_key, changes nothing
GetKeyScheduleEntropy ==
    /\ last_call' = [method |-> "get_key_schedule_entropy", arg |-> None]
    /\ outcome' = "returned"
    /\ result' = Some(get_key_schedule_entropy(expanded_key))
    /\ UNCHANGED <<rotations, rcon_multipliers, key, expanded_key>>
    /\ UNCHANGED <<opVars, gaVars, twinVars, restVars>>

\* the ciphertexts handed to decrypt: what encrypt returned under a usable key
Ciphertexts ==
    {EcbEncrypt(k, pad(p)) : k \in {x \in AllKeys : Len(x) \in AesKeySizes},
                             p \in Plaintexts}

AESNext ==
    \/ \E k \in AllKeys : CallKeyExpansion(k)
    \/ \E k \in AllKeys, p \in Plaintexts : Encrypt(p, k)
    \/ \E k \in AllKeys, c \in Ciphertexts : Decrypt(c, k)
    \/ GetKeyScheduleEntropy

(***************************************************************************)
(* Two CustomAES instances, built with any two parameter sets, given the   *)
(* same calls: both encrypt the same plaintext under the same key, then    *)
(* each decrypts the ciphertext the other one returned                     *)
(***************************************************************************)
\* CustomAES(params) as a value
Instance(rots, rcons) ==
    [rotations |-> rots, rcon_multipliers |-> rcons,
     key |-> None, expanded_key |-> None]

\* cipher.decrypt(ct) under key k, unpadded; `other` is what the primitive and
\* unpad make of a ciphertext that was encrypted under another key: a fixed
\* function of ct and k, either a padding error or garbage
EcbDecryptUnpad(k, ct, other) ==
    IF ct.ecb_key = k THEN Return(Some(unpad(ct.ecb_data)))
    ELSE IF other = "ValueError" THEN Raise("ValueError")
    ELSE Return(Some(Garbage))

\* what the two calls leave behind: the instance and the outcome of the call
CallResult(self, k, e, c) ==
    IF e.raised # "none"
    THEN [raised |-> e.raised, value |-> None,
          instance |-> [self EXCEPT !.key = Some(k)]]
    ELSE [raised |-> c.raised, value |-> c.value,
          instance |-> [self EXCEPT !.key = Some(k), !.expanded_key = e.value]]

\* an encrypt that keys the cipher with the expanded schedule
encrypt_with_schedule(self, plaintext, k) ==
    LET e == ExpansionTable[k, <<self.rotations, self.rcon_multipliers>>]
    IN  CallResult(self, k, e,
          CipherCall(k, Return(Some(EcbEncrypt(e.value, pad(plaintext))))))

\* self.encrypt(plaintext, k)
encrypt(self, plaintext, k) ==
    LET e == ExpansionTable[k, <<self.rotations, self.rcon_multipliers>>]
    IN  CallResult(self, k, e,
          CipherCall(k, Return(Some(EcbEncrypt(k, pad(plaintext))))))

\* self.decrypt(ciphertext, k)
decrypt(self, ciphertext, k, other) ==
    LET e == ExpansionTable[k, <<self.rotations, self.rcon_multipliers>>]
    IN  CallResult(self, k, e, CipherCall(k, EcbDecryptUnpad(k, ciphertext, other)))

Outcome(res) == [raised |-> res.raised, value |-> res.value]

\* the parameters of the second instance: the standard ones, and rotations 3
\* and multipliers 2 but for round 7
PeerParams ==
    {<<Neutral, Neutral>>, <<GeneArray(3, 8, 2), GeneArray(2, 8, 3)>>}

\* two instances whose parameters differ in the multiplier of round 7 only,
\* which is 3 in the first and 1 in the second
Round7Twins ==
    << Instance(GeneArray(3, 8, 2), GeneArray(2, 8, 3)),
       Instance(Round7Pair[1], Round7Pair[2]) >>

TwinInit ==
    /\ twins \in {<<Instance(a[1], a[2]), Instance(b[1], b[2])>> :
                     a \in InstanceParams, b \in PeerParams} \cup {Round7Twins}
    /\ twin_call = [key |-> None, method |-> "__init__", arg |-> None]
    /\ twin_wire = None
    /\ twin_out = None

\* both instances encrypt plaintext under k
TwinEncrypt(plaintext, k) ==
    LET r1 == encrypt(twins[1], plaintext, k)
        r2 == encrypt(twins[2], plaintext, k)
    IN  /\ twins' = <<r1.instance, r2.instance>>
        /\ twin_call' = [key |-> Some(k), method |-> "encrypt", arg |-> Some(plaintext)]
        /\ twin_out' = <<Outcome(r1), Outcome(r2)>>
        /\ twin_wire' = IF r1.raised = "none" /\ r2.raised = "none"
                        THEN Some([key |-> k,
                                   value |-> <<r1.value[1], r2.value[1]>>,
                                   arg |-> plaintext])
                        ELSE None
        /\ UNCHANGED <<aesVars, opVars, gaVars, restVars>>

\* each instance decrypts under k the ciphertext the other one returned
TwinDecrypt(k, other) ==
    /\ twin_wire # None
    /\ LET r1 == decrypt(twins[1], twin_wire[1].value[2], k, other)
           r2 == decrypt(twins[2], twin_wire[1].value[1], k, other)
       IN  /\ twins' = <<r1.instance, r2.instance>>
           /\ twin_call' = [key |-> Some(k), method |-> "decrypt", arg |-> None]
           /\ twin_out' = <<Outcome(r1), Outcome(r2)>>
    /\ UNCHANGED twin_wire
    /\ UNCHANGED <<aesVars, opVars, gaVars, restVars>>

TwinNext ==
    \/ \E p \in Plaintexts, k \in AllKeys : TwinEncrypt(p, k)
    \/ \E k \in AllKeys, other \in {"ValueError", "garbage"} : TwinDecrypt(k, other)

(***************************************************************************)
(* SecurityMetrics.calculate_avalanche_effect                              *)
(***************************************************************************)
\* largest num_tests
MaxTests == 2

\* the 16-byte blocks of data
Blocks(data) ==
    [i \in 1..(Len(data) \div BlockSize) |->
        SubSeq(data, (BlockSize * (i - 1)) + 1, BlockSize * i)]

\* plaintext_list[bit_pos] ^= (1 << bit)
FlipBit(plaintext, bit_pos, bit) ==
    [plaintext EXCEPT ![bit_pos + 1] = Xor(@, 2^bit)]

\* in how many bits two unequal ciphertext blocks may differ: the primitive is
\* not interpreted, so any number of 1 .. 128 is possible; these are drawn
BlockDiffs == {1, 64, 128}

\* sum(bin(b1 ^ b2).count('1') for b1, b2 in zip(ct1, ct2)), block by block:
\* ECB under one key maps equal plaintext blocks to equal ciphertext blocks and
\* unequal ones to unequal ones, which differ in d[i] bits
RECURSIVE BlockDiffSum(_, _, _, _)
BlockDiffSum(b1, b2, d, i) ==
    IF i > Min(Len(b1), Len(b2)) THEN 0
    ELSE (IF b1[i] = b2[i] THEN 0 ELSE d[i]) + BlockDiffSum(b1, b2, d, i + 1)

diff_bits(ct1, ct2, d) ==
    BlockDiffSum(Blocks(ct1.ecb_data), Blocks(ct2.ecb_data), d, 1)

\* (diff_bits / total_bits) * 100, in 1/100 percent
Percentage(diff, total_bits) == (diff * 10000) \div total_bits

RECURSIVE SumSeq(_)
SumSeq(xs) == IF xs = << >> THEN 0 ELSE xs[1] + SumSeq(Tail(xs))

\* np.mean(xs)
Mean(xs) == SumSeq(xs) \div Len(xs)

\* the largest r of lo .. hi with r * r <= n
RECURSIVE Isqrt(_, _, _)
Isqrt(n, lo, hi) ==
    IF lo >= hi THEN lo
    ELSE LET mid == (lo + hi + 1) \div 2
         IN  IF mid * mid <= n THEN Isqrt(n, mid, hi) ELSE Isqrt(n, lo, mid - 1)

\* np.std(xs): the root of the mean squared deviation from the mean
Std(xs) ==
    Isqrt(Mean([i \in 1..Len(xs) |-> (xs[i] - Mean(xs)) * (xs[i] - Mean(xs))]), 0, 10000)

\* get_random_bytes(16): b"test" * 4 and sixteen zero bytes
AvalPlaintexts == {p \in Plaintexts : Len(p) = 16} \cup {[i \in 1..16 |-> 0]}

AvalInit ==
    /\ av_cipher \in {Instance(Neutral, Neutral), Instance(Round7Pair[1], Round7Pair[2])}
    /\ av_key \in TestKeys
    /\ av_num_tests \in 1..MaxTests
    /\ av_trial = None
    /\ av_percentages = << >>
    /\ av_result = None

\* one pass of the loop: encrypt a plaintext, flip bit `bit` of its byte
\* bit_pos, encrypt that, and append the percentage of differing bits
AvalTrial(plaintext, bit_pos, bit, d) ==
    /\ av_result = None
    /\ Len(av_percentages) < av_num_tests
    /\ LET r1 == encrypt(av_cipher, plaintext, av_key)
           plaintext_modified == FlipBit(plaintext, bit_pos, bit)
           r2 == encrypt(r1.instance, plaintext_modified, av_key)
           ct1 == r1.value[1]
           ct2 == r2.value[1]
           diff == diff_bits(ct1, ct2, d)
           total_bits == Len(ct1.ecb_data) * 8
       IN  /\ av_cipher' = r2.instance
           /\ av_trial' = Some(<< plaintext, plaintext_modified, ct1, ct2, diff, total_bits >>)
           /\ av_percentages' = Append(av_percentages, Percentage(diff, total_bits))
    /\ UNCHANGED <<av_key, av_num_tests, av_result>>
    /\ UNCHANGED exceptAval

\* return np.mean(avalanche_percentages), np.std(avalanche_percentages)
AvalReturn ==
    /\ av_result = None
    /\ Len(av_percentages) = av_num_tests
    /\ av_result' = Some(<< Mean(av_percentages), Std(av_percentages) >>)
    /\ UNCHANGED <<av_cipher, av_key, av_num_tests, av_trial, av_percentages>>
    /\ UNCHANGED exceptAval

AvalNext ==
    \/ \E p \in AvalPlaintexts, bit_pos \in {0, 15}, bit \in {0, 7},
          d \in [1..2 -> BlockDiffs] : AvalTrial(p, bit_pos, bit, d)
    \/ AvalReturn

(***************************************************************************)
(* IntegrationClient.send_message                                          *)
(***************************************************************************)
\* largest retry_count passed to send_message
MaxRetry == 3
\* number of send_message calls on the client
MaxCalls == 2

\* latencies measured, in ms
Latencies == {3, 7}

\* how the try block of an attempt can end: "success" is the return of the
\* latency; "refused" a ConnectionRefusedError; "error" any other Exception
\* raised up to the receipt of the ACK; "report_error" an Exception raised
\* after the latency was recorded (the report printed to the console)
AttemptOutcomes == {"success", "refused", "error", "report_error"}

\* a client whose first send_message call is still to come
ClientInit ==
    /\ ic_latencies = << >>
    /\ ic_messages_sent = 0
    /\ ic_retry_count = 0
    /\ ic_attempt = 0
    /\ ic_pc = "idle"
    /\ ic_sockets = << >>
    /\ ic_outcomes = << >>
    /\ ic_exit = None
    /\ ic_result = None
    /\ ic_calls = 0

\* what an attempt that ended with `o` does after its finally clause: return
\* a value, or go on with the next pass of the loop
retry_after_all_errors(o, attempt, retry_count, latency) ==
    CASE o = "success" -> << "return", Some(latency) >>
      [] attempt < retry_count - 1 /\ o # "report_error" -> << "continue" >>
      [] OTHER -> << "return", Some(None) >>

ExitOf(o, attempt, retry_count, latency) ==
    CASE o = "success" -> << "return", Some(latency) >>
      [] o = "refused" /\ attempt < retry_count - 1 -> << "continue" >>
      [] OTHER -> << "return", Some(None) >>

\* a call of send_message(message, retry_count)
SendMessage(retry_count) ==
    /\ ic_pc \in {"idle", "returned"}
    /\ ic_calls < MaxCalls
    /\ ic_calls' = ic_calls + 1
    /\ ic_retry_count' = retry_count
    /\ ic_attempt' = 0
    /\ ic_sockets' = << >>
    /\ ic_outcomes' = << >>
    /\ ic_exit' = None
    /\ ic_result' = None
    /\ ic_pc' = "loop"
    /\ UNCHANGED <<ic_latencies, ic_messages_sent>>
    /\ UNCHANGED exceptClient

\* for attempt in range(retry_count): the next pass creates its socket; when
\* the range is exhausted the function ends without a return statement
LoopHead ==
    /\ ic_pc = "loop"
    /\ IF ic_attempt < ic_retry_count
         THEN /\ ic_sockets' = Append(ic_sockets, "open")
              /\ ic_pc' = "try"
              /\ UNCHANGED ic_result
         ELSE /\ ic_result' = Some(None)
              /\ ic_pc' = "returned"
              /\ UNCHANGED ic_sockets
    /\ UNCHANGED <<ic_latencies, ic_messages_sent, ic_retry_count, ic_attempt,
                   ic_outcomes, ic_exit, ic_calls>>
    /\ UNCHANGED exceptClient

\* the try block with its except clauses: connect, encrypt, send, receive,
\* record the latency, report
TryBlock(o, latency) ==
    /\ ic_pc = "try"
    /\ IF o \in {"success", "report_error"}
         THEN /\ ic_latencies' = Append(ic_latencies, latency)
              /\ ic_messages_sent' = ic_messages_sent + 1
         ELSE UNCHANGED <<ic_latencies, ic_messages_sent>>
    /\ ic_outcomes' = Append(ic_outcomes, o)
    /\ ic_exit' = Some(ExitOf(o, ic_attempt, ic_retry_count, latency))
    /\ ic_pc' = "finally"
    /\ UNCHANGED <<ic_retry_count, ic_attempt, ic_sockets, ic_result, ic_calls>>
    /\ UNCHANGED exceptClient

\* finally: client_socket.close(), then the pending return or the next pass
Finally ==
    /\ ic_pc = "finally"
    /\ ic_sockets' = [ic_sockets EXCEPT ![Len(ic_sockets)] = "closed"]
    /\ IF ic_exit[1][1] = "continue"
         THEN /\ ic_attempt' = ic_attempt + 1
              /\ ic_pc' = "loop"
              /\ UNCHANGED ic_result
         ELSE /\ ic_result' = ic_exit[1][2]
              /\ ic_pc' = "returned"
              /\ UNCHANGED ic_attempt
    /\ ic_exit' = None
    /\ UNCHANGED <<ic_latencies, ic_messages_sent, ic_retry_count, ic_outcomes, ic_calls>>
    /\ UNCHANGED exceptClient

ClientNext ==
    \/ \E retry_count \in 0..MaxRetry : SendMessage(retry_count)
    \/ LoopHead
    \/ \E o \in AttemptOutcomes, latency \in Latencies : TryBlock(o, latency)
    \/ Finally

(***************************************************************************)
(* SecureServer, SecureClient and NetworkPerformanceTester.run_test        *)
(***************************************************************************)
\* num_clients and messages_per_client of the run
NumClients == 2
MsgsPerClient == 2

Clients == 1..NumClients

\* f"Message {i} from Client {id}".encode(), for i and id below 10
MessageBytes(i, id) ==
    << 77, 101, 115, 115, 97, 103, 101, 32, 48 + i,
       32, 102, 114, 111, 109, 32, 67, 108, 105, 101, 110, 116, 32, 48 + id >>

\* b"ACK: "
AckPrefix == << 65, 67, 75, 58, 32 >>

\* the aes_params run_test is given: the standard schedule and an evolved one
ServerParams == {<< Neutral, Neutral >>, Round7Pair}

\* after server and clients are built and every thread is started
ServerInit ==
    /\ sv_key \in TestKeys
    /\ \E pr \in ServerParams :
          /\ sv_aes = Instance(pr[1], pr[2])
          /\ cl_aes = [c \in Clients |-> Instance(pr[1], pr[2])]
    /\ sv_metrics = << >>
    /\ sv_lock = 0
    /\ cl_results = [c \in Clients |-> << >>]
    /\ th_pc = [c \in Clients |-> IF MsgsPerClient > 0 THEN "send" ELSE "done"]
    /\ th_msg = [c \in Clients |-> 1]
    /\ th_data = [c \in Clients |-> None]
    /\ th_metrics = [c \in Clients |-> None]
    /\ th_loaded = [c \in Clients |-> None]
    /\ rt_out = None

\* a lock that any thread may take at any time
lock_always_free(holder) == TRUE

\* threading.Lock: acquired only while no thread holds it
LockFree(holder) == holder = 0

\* SecureClient.send_message up to the call of handle_request: encrypt the
\* message with the client's own instance; an exception ends the thread
ClientEncrypt(c) ==
    /\ th_pc[c] = "send"
    /\ LET res == encrypt(cl_aes[c], MessageBytes(th_msg[c], c), sv_key)
       IN  /\ cl_aes' = [cl_aes EXCEPT ![c] = res.instance]
           /\ IF res.raised = "none"
                THEN /\ th_data' = [th_data EXCEPT ![c] = res.value]
                     /\ th_pc' = [th_pc EXCEPT ![c] = "decrypt"]
                ELSE /\ th_pc' = [th_pc EXCEPT ![c] = "raised"]
                     /\ UNCHANGED th_data
    /\ th_metrics' = [th_metrics EXCEPT ![c] = None]
    /\ UNCHANGED <<sv_aes, sv_key, sv_metrics, sv_lock, cl_results, th_msg,
                   th_loaded, rt_out>>
    /\ UNCHANGED exceptServer

\* handle_request: decrypt with the shared instance; on an exception the
\* request returns None. Then the response is encrypted with the same instance
\* and the metrics record of the request is built: its client_id and, standing
\* for the times measured, the number of the request
ServerDecrypt(c, other) ==
    /\ th_pc[c] = "decrypt"
    /\ LET dec == decrypt(sv_aes, th_data[c][1], sv_key, other)
       IN  IF dec.raised # "none"
             THEN /\ sv_aes' = dec.instance
                  /\ th_metrics' = [th_metrics EXCEPT ![c] = None]
                  /\ th_pc' = [th_pc EXCEPT ![c] = "result"]
             ELSE LET resp == encrypt(dec.instance,
                                      AckPrefix \o PySlice(dec.value[1], 0, 20), sv_key)
                  IN  /\ sv_aes' = resp.instance
                      /\ IF resp.raised = "none"
                           THEN /\ th_metrics' = [th_metrics EXCEPT
                                                    ![c] = Some(<< c, th_msg[c] >>)]
                                /\ th_pc' = [th_pc EXCEPT ![c] = "acquire"]
                           ELSE /\ th_pc' = [th_pc EXCEPT ![c] = "raised"]
                                /\ UNCHANGED th_metrics
    /\ UNCHANGED <<sv_key, sv_metrics, sv_lock, cl_aes, cl_results, th_msg,
                   th_data, th_loaded, rt_out>>
    /\ UNCHANGED exceptServer

\* with self.lock: entry
Acquire(c) ==
    /\ th_pc[c] = "acquire"
    /\ LockFree(sv_lock)
    /\ sv_lock' = c
    /\ th_pc' = [th_pc EXCEPT ![c] = "load"]
    /\ UNCHANGED <<sv_aes, sv_key, sv_metrics, cl_aes, cl_results, th_msg,
                   th_data, th_metrics, th_loaded, rt_out>>
    /\ UNCHANGED exceptServer

\* self.metrics.append(metrics), as the read of the list and the write of the
\* longer one: the append is not taken to be one step
LoadMetrics(c) ==
    /\ th_pc[c] = "load"
    /\ th_loaded' = [th_loaded EXCEPT ![c] = Some(sv_metrics)]
    /\ th_pc' = [th_pc EXCEPT ![c] = "store"]
    /\ UNCHANGED <<sv_aes, sv_key, sv_metrics, sv_lock, cl_aes, cl_results,
                   th_msg, th_data, th_metrics, rt_out>>
    /\ UNCHANGED exceptServer

StoreMetrics(c) ==
    /\ th_pc[c] = "store"
    /\ sv_metrics' = Append(th_loaded[c][1], th_metrics[c][1])
    /\ th_loaded' = [th_loaded EXCEPT ![c] = None]
    /\ th_pc' = [th_pc EXCEPT ![c] = "release"]
    /\ UNCHANGED <<sv_aes, sv_key, sv_lock, cl_aes, cl_results, th_msg,
                   th_data, th_metrics, rt_out>>
    /\ UNCHANGED exceptServer

\* with self.lock: exit, and return metrics
Release(c) ==
    /\ th_pc[c] = "release"
    /\ sv_lock' = 0
    /\ th_pc' = [th_pc EXCEPT ![c] = "result"]
    /\ UNCHANGED <<sv_aes, sv_key, sv_metrics, cl_aes, cl_results, th_msg,
                   th_data, th_metrics, th_loaded, rt_out>>
    /\ UNCHANGED exceptServer

\* SecureClient.send_message after handle_request, and the loop of
\* _client_worker: a result is appended if server_metrics is not None
ClientResult(c) ==
    /\ th_pc[c] = "result"
    /\ IF th_metrics[c] # None
         THEN cl_results' = [cl_results EXCEPT ![c] = Append(@, << c, th_metrics[c][1] >>)]
         ELSE UNCHANGED cl_results
    /\ th_data' = [th_data EXCEPT ![c] = None]
    /\ IF th_msg[c] < MsgsPerClient
         THEN /\ th_msg' = [th_msg EXCEPT ![c] = @ + 1]
              /\ th_pc' = [th_pc EXCEPT ![c] = "send"]
         ELSE /\ th_pc' = [th_pc EXCEPT ![c] = "done"]
              /\ UNCHANGED th_msg
    /\ UNCHANGED <<sv_aes, sv_key, sv_metrics, sv_lock, cl_aes, th_metrics,
                   th_loaded, rt_out>>
    /\ UNCHANGED exceptServer

RECURSIVE Concat(_, _)
\* the lists f[1] .. f[n], one after the other
Concat(f, n) == IF n = 0 THEN << >> ELSE Concat(f, n - 1) \o f[n]

\* run_test once every thread has been joined: all_client_results and
\* server.get_metrics(), a copy taken under the lock
Collect ==
    /\ rt_out = None
    /\ \A c \in Clients : th_pc[c] \in {"done", "raised"}
    /\ LockFree(sv_lock)
    /\ rt_out' = Some(<< Concat(cl_results, NumClients), sv_metrics >>)
    /\ UNCHANGED <<sv_aes, sv_key, sv_metrics, sv_lock, cl_aes, cl_results,
                   th_pc, th_msg, th_data, th_metrics, th_loaded>>
    /\ UNCHANGED exceptServer

ServerNext ==
    \/ \E c \in Clients : ClientEncrypt(c)
    \/ \E c \in Clients, other \in {"ValueError", "garbage"} : ServerDecrypt(c, other)
    \/ \E c \in Clients : Acquire(c)
    \/ \E c \in Clients : LoadMetrics(c)
    \/ \E c \in Clients : StoreMetrics(c)
    \/ \E c \in Clients : Release(c)
    \/ \E c \in Clients : ClientResult(c)
    \/ Collect

(***************************************************************************)
(* PacketTracerBridge: latencies are held in 1/10000 ms                    *)
(***************************************************************************)
\* largest number of send_packet calls, and of receive_packet calls
MaxPackets == 3

\* the payloads sent: none, one and two blocks of bytes
Payloads == {[i \in 1..n |-> 0] : n \in {0, 16, 32}}

EncryptionTypes == {"GA-AES", "PLAIN"}

\* PacketTracerBridge()
BridgeInit ==
    /\ br_packets_sent = << >>
    /\ br_packets_received = << >>
    /\ br_statistics = [total_packets |-> 0, total_bytes |-> 0, total_latency |-> 0,
                        encryption_overhead |-> 0, network_latency |-> 0]
    /\ br_call = Some("__init__")
    /\ br_result = None
    /\ br_clock = 0

\* simulate_network_latency: base 2.0 ms, 0.5 ms per 1000 bytes, and 0.42 ms
\* when encrypted; returns the statistics it updated and the latency
simulate_network_latency(st, packet_size_bytes, is_encrypted) ==
    LET base_latency == 20000
        size_latency == packet_size_bytes * 5
        overhead == IF is_encrypted THEN 4200 ELSE 0
    IN  << [st EXCEPT !.network_latency = @ + base_latency,
                      !.encryption_overhead = @ + overhead],
           base_latency + size_latency + overhead >>

\* an update of the counters that leaves total_bytes alone
statistics_without_bytes(st, packet_size, latency) ==
    [st EXCEPT !.total_packets = @ + 1,
               !.total_latency = @ + latency]

\* the three counters send_packet adds to
StatisticsAfterSend(st, packet_size, latency) ==
    [st EXCEPT !.total_packets = @ + 1,
               !.total_bytes = @ + packet_size,
               !.total_latency = @ + latency]

send_packet(source_ip, dest_ip, payload, encryption_type) ==
    /\ Len(br_packets_sent) < MaxPackets
    /\ LET packet_size == Len(payload)
           sim == simulate_network_latency(br_statistics, packet_size,
                                           encryption_type # "PLAIN")
           packet == [source_ip |-> source_ip, dest_ip |-> dest_ip,
                      payload |-> payload, timestamp |-> br_clock,
                      latency_ms |-> sim[2], size_bytes |-> packet_size]
       IN  /\ br_packets_sent' = Append(br_packets_sent, packet)
           /\ br_statistics' = StatisticsAfterSend(sim[1], packet_size, sim[2])
           /\ br_result' = Some(packet)
    /\ br_call' = Some("send_packet")
    /\ br_clock' = br_clock + 1
    /\ UNCHANGED br_packets_received
    /\ UNCHANGED exceptBridge

receive_packet(packet) ==
    /\ Len(br_packets_received) < MaxPackets
    /\ br_packets_received' = Append(br_packets_received, packet)
    /\ br_result' = Some(packet)
    /\ br_call' = Some("receive_packet")
    /\ br_clock' = br_clock + 1
    /\ UNCHANGED <<br_packets_sent, br_statistics>>
    /\ UNCHANGED exceptBridge

\* round(a / b) for b > 0 and a >= 0: to the nearest, a tie to the even one
RoundDiv(a, b) ==
    LET q == a \div b
        r == a % b
    IN  IF 2 * r > b \/ (2 * r = b /\ q % 2 = 1) THEN q + 1 ELSE q

\* get_statistics: the average in 1/10000 ms, the totals rounded to 1/100 ms
\* (total_latency_ms, network_latency_ms) and to 1/10000 ms
get_statistics ==
    /\ br_call # Some("get_statistics")
    /\ LET avg_latency == IF br_statistics.total_packets > 0
                            THEN RoundDiv(br_statistics.total_latency,
                                          br_statistics.total_packets)
                            ELSE 0
       IN  br_result' = Some([total_packets |-> br_statistics.total_packets,
                              total_bytes |-> br_statistics.total_bytes,
                              average_latency_ms |-> avg_latency,
                              total_latency_ms |-> RoundDiv(br_statistics.total_latency, 100),
                              encryption_overhead_ms |-> br_statistics.encryption_overhead,
                              network_latency_ms |-> RoundDiv(br_statistics.network_latency, 100)])
    /\ br_call' = Some("get_statistics")
    /\ UNCHANGED <<br_packets_sent, br_packets_received, br_statistics, br_clock>>
    /\ UNCHANGED exceptBridge

BridgeNext ==
    \/ \E payload \in Payloads, encryption_type \in EncryptionTypes :
          send_packet("127.0.0.1", "127.0.0.1", payload, encryption_type)
    \/ \E i \in 1..Len(br_packets_sent) : receive_packet(br_packets_sent[i])
    \/ get_statistics

(***************************************************************************)
(* KeyScheduleChromosome                                                   *)
(***************************************************************************)
\* the resolution of the random source and of the rates: random.random()
\* returns r / RandRes with r in 0 .. RandRes-1 (a value of [0, 1)), and a rate
\* is k / RandRes with k in 0 .. RandRes
RandRes == 2

RandomDraws == 0..(RandRes - 1)
Rates == 0..RandRes

\* self.metrics = {}
EmptyMetrics == << >>

\* KeyScheduleChromosome(rotations, rcon_multipliers): fitness 0.0, no metrics.
\* `measured` is a history field: the genes the object had when evaluate_fitness
\* last measured it (None before the first evaluation); a deep copy carries it
\* like fitness and metrics.
KeyScheduleChromosome(rots, rcons) ==
    [rotations |-> rots, rcon_multipliers |-> rcons,
     fitness |-> 0, metrics |-> EmptyMetrics, measured |-> None]

\* to_params()
to_params(c) == <<c.rotations, c.rcon_multipliers>>

(***************************************************************************)
(* GeneticAlgorithm.crossover_single_point and mutate                      *)
(***************************************************************************)
\* a crossover whose children take parent2's tail from one gene too early
crossover_off_by_one(parent1, parent2, crossover_rate, r, point) ==
    IF r > crossover_rate
    THEN <<parent1, parent2>>
    ELSE << KeyScheduleChromosome(
              PySlice(parent1.rotations, 0, point)
                \o PySlice(parent2.rotations, point - 1, Len(parent2.rotations)),
              PySlice(parent1.rcon_multipliers, 0, point)
                \o PySlice(parent2.rcon_multipliers, point - 1, Len(parent2.rcon_multipliers))),
            KeyScheduleChromosome(
              PySlice(parent2.rotations, 0, point)
                \o PySlice(parent1.rotations, point - 1, Len(parent1.rotations)),
              PySlice(parent2.rcon_multipliers, 0, point)
                \o PySlice(parent1.rcon_multipliers, point - 1, Len(parent1.rcon_multipliers))) >>

\* a crossover whose second child repeats the first
crossover_same_children(parent1, parent2, crossover_rate, r, point) ==
    IF r > crossover_rate
    THEN <<parent1, parent2>>
    ELSE LET child1 == KeyScheduleChromosome(
                         PySlice(parent1.rotations, 0, point)
                           \o PySlice(parent2.rotations, point, Len(parent2.rotations)),
                         PySlice(parent1.rcon_multipliers, 0, point)
                           \o PySlice(parent2.rcon_multipliers, point,
                                      Len(parent2.rcon_multipliers)))
         IN  <<child1, child1>>

\* crossover_single_point(parent1, parent2) when random.random() returned r
\* and random.randint(1, 9) would return point
crossover_single_point(parent1, parent2, crossover_rate, r, point) ==
    IF r > crossover_rate
    THEN <<parent1, parent2>>           \* deep copies: fitness and metrics too
    ELSE << KeyScheduleChromosome(
              PySlice(parent1.rotations, 0, point)
                \o PySlice(parent2.rotations, point, Len(parent2.rotations)),
              PySlice(parent1.rcon_multipliers, 0, point)
                \o PySlice(parent2.rcon_multipliers, point, Len(parent2.rcon_multipliers))),
            KeyScheduleChromosome(
              PySlice(parent2.rotations, 0, point)
                \o PySlice(parent1.rotations, point, Len(parent1.rotations)),
              PySlice(parent2.rcon_multipliers, 0, point)
                \o PySlice(parent1.rcon_multipliers, point, Len(parent1.rcon_multipliers))) >>

\* a mutation test that also fires on a draw equal to the rate
MutationHitInclusive(d, mutation_rate) == d <= mutation_rate

\* whether the draw d (of random.random()) mutates a gene
MutationHit(d, mutation_rate) == d < mutation_rate

\* mutate(chromosome): draws[i].r is what random.random() returned for gene i
\* (rotations first, then rcon multipliers) and draws[i].v what
\* random.randint(1, 3) returns if it is called; fitness and metrics stay
mutate(chromosome, mutation_rate, draws) ==
    LET n == Len(chromosome.rotations)
    IN  [chromosome EXCEPT
           !.rotations =
              [i \in 1..Len(@) |->
                 IF MutationHit(draws[i].r, mutation_rate) THEN draws[i].v ELSE @[i]],
           !.rcon_multipliers =
              [i \in 1..Len(@) |->
                 IF MutationHit(draws[n + i].r, mutation_rate) THEN draws[n + i].v ELSE @[i]]]

\* number of genes of one chromosome
NumGenes == 20

\* the draws of one mutate call: <<rb, vb>> at every gene but <<ra, va>> at pos
DrawVector(rb, vb, pos, ra, va) ==
    [i \in 1..NumGenes |->
       IF i = pos THEN [v |-> va, r |-> ra] ELSE [v |-> vb, r |-> rb]]

\* how many of the draws mutate a gene
CountHits(draws, mutation_rate) ==
    Cardinality({i \in 1..NumGenes : MutationHit(draws[i].r, mutation_rate)})

\* the cut points random.randint(1, 9) returns
CutPoints == 1..9

(***************************************************************************)
(* The operators applied to drawn parents                                  *)
(***************************************************************************)
\* the chromosomes the operators are applied to
OperandChromosomes ==
    {KeyScheduleChromosome(Neutral, Neutral),
     KeyScheduleChromosome(GeneArray(2, 1, 3), GeneArray(3, 10, 1)),
     [KeyScheduleChromosome(GeneArray(3, 8, 2), GeneArray(2, 8, 1))
        EXCEPT !.fitness = 7]}

OpsInit ==
    /\ op_rates \in [crossover_rate : Rates, mutation_rate : Rates]
    /\ op_parents \in OperandChromosomes \X OperandChromosomes
    /\ op_draws = None
    /\ op_children = None
    /\ op_name = "none"

\* child1, child2 = crossover_single_point(parent1, parent2)
ApplyCrossover(r, point) ==
    /\ op_name = "none"
    /\ op_name' = "crossover_single_point"
    /\ op_draws' = [r |-> r, point |-> point]
    /\ op_children' = crossover_single_point(op_parents[1], op_parents[2],
                                             op_rates.crossover_rate, r, point)
    /\ UNCHANGED <<op_rates, op_parents>>
    /\ UNCHANGED <<aesVars, gaVars, twinVars, restVars>>

\* mutate(parent1)
ApplyMutate(draws) ==
    /\ op_name = "none"
    /\ op_name' = "mutate"
    /\ op_draws' = draws
    /\ op_children' = << mutate(op_parents[1], op_rates.mutation_rate, draws) >>
    /\ UNCHANGED <<op_rates, op_parents>>
    /\ UNCHANGED <<aesVars, gaVars, twinVars, restVars>>

OpsNext ==
    \/ \E r \in RandomDraws, point \in CutPoints : ApplyCrossover(r, point)
    \/ \E rb \in RandomDraws, ra \in RandomDraws, vb \in Genes, va \in Genes,
          pos \in 1..NumGenes :
          ApplyMutate(DrawVector(rb, vb, pos, ra, va))

(***************************************************************************)
(* GeneticAlgorithm: bounds and draws of an evolve() run                   *)
(***************************************************************************)
\* largest population_size
MaxPop == 3
\* largest num_generations
MaxGen == 2
\* most genes the mutation draws replace during one run
MaxHits == 1
\* most offspring one run creates:
\* (population_size - elitism_count) * num_generations
MaxOffspring == 4

\* tournament_size
TournamentSize == 3

\* fitness weights, in tenths
w_avalanche == 4
w_entropy == 3
w_speed == 3

\* the rates an engine is configured with
EngineRates ==
    {[crossover_rate |-> RandRes, mutation_rate |-> 1],
     [crossover_rate |-> 0, mutation_rate |-> 0]}

\* GeneticAlgorithm(...) with population_size >= elitism_count + 1 and
\* num_generations >= 1
Configs ==
    {[crossover_rate |-> rt.crossover_rate, mutation_rate |-> rt.mutation_rate,
      population_size |-> n, elitism_count |-> e, num_generations |-> g] :
        n \in 1..MaxPop, e \in 0..(MaxPop - 1), g \in 1..MaxGen, rt \in EngineRates}

ValidConfigs ==
    {c \in Configs :
        /\ c.population_size >= c.elitism_count + 1
        /\ (c.population_size - c.elitism_count) * c.num_generations <= MaxOffspring}

\* the chromosomes KeyScheduleChromosome() draws
RandomChromosomes ==
    {KeyScheduleChromosome(GeneArray(2, 1, 3), GeneArray(3, 10, 1)),
     KeyScheduleChromosome(GeneArray(3, 8, 2), GeneArray(2, 8, 1))}

\* what one evaluate_fitness call measures: the avalanche mean and standard
\* deviation in percent, the key-schedule entropy in 1/1000 bit and the mean
\* encryption time in 1/100 ms. The avalanche and the time are random; the
\* entropy is left open as well.
Measurements ==
    {[avalanche_mean |-> 24, avalanche_std |-> 3, entropy |-> 7000, enc_time |-> 10],
     [avalanche_mean |-> 25, avalanche_std |-> 2, entropy |-> 7200, enc_time |-> 0]}

Abs(x) == IF x < 0 THEN -x ELSE x

\* the metrics dictionary of evaluate_fitness, scores in 1/1000
Metrics(m) ==
    [avalanche_mean  |-> m.avalanche_mean,
     avalanche_std   |-> m.avalanche_std,
     entropy         |-> m.entropy,
     encryption_time |-> m.enc_time,
     avalanche_score |-> Max(0, 1000 - ((1000 * Abs(m.avalanche_mean - 50)) \div 50)),
     entropy_score   |-> m.entropy \div 8,
     speed_score     |-> (1000 * 100) \div (100 + (m.enc_time * 10))]

\* a fitness that weighs each score with 1.0
FitnessUnitWeights(mt) ==
    (10 * mt.avalanche_score) + (10 * mt.entropy_score) + (10 * mt.speed_score)

\* the fitness evaluate_fitness returns, in 1/10000
Fitness(mt) ==
    (w_avalanche * mt.avalanche_score) + (w_entropy * mt.entropy_score)
      + (w_speed * mt.speed_score)

\* an evaluation that keeps the fitness and the metrics of a chromosome that
\* already has metrics
EvaluatedOnce(chromosome, m) ==
    IF chromosome.metrics # EmptyMetrics THEN chromosome
    ELSE [chromosome EXCEPT !.metrics = Metrics(m), !.fitness = Fitness(Metrics(m)),
                            !.measured = Some(to_params(chromosome))]

\* chromosome.fitness = self.evaluate_fitness(chromosome), which also stores
\* chromosome.metrics; the measurement is taken on an instance built from
\* chromosome.to_params()
Evaluated(chromosome, m) ==
    [chromosome EXCEPT !.metrics = Metrics(m), !.fitness = Fitness(Metrics(m)),
                       !.measured = Some(to_params(chromosome))]

\* list.sort(key=lambda x: x.fitness, reverse=True): stable, so chromosomes of
\* equal fitness keep their order
RECURSIVE InsertDesc(_, _)
InsertDesc(sorted, c) ==
    IF sorted = << >> THEN << c >>
    ELSE IF sorted[Len(sorted)].fitness >= c.fitness THEN Append(sorted, c)
    ELSE Append(InsertDesc(SubSeq(sorted, 1, Len(sorted) - 1), c), sorted[Len(sorted)])

RECURSIVE SortDesc(_)
SortDesc(pop) ==
    IF pop = << >> THEN << >>
    ELSE InsertDesc(SortDesc(SubSeq(pop, 1, Len(pop) - 1)), pop[Len(pop)])

RECURSIVE SumFitness(_)
SumFitness(pop) ==
    IF pop = << >> THEN 0 ELSE pop[1].fitness + SumFitness(Tail(pop))

\* np.mean([c.fitness for c in population]) as the fraction num / den
MeanFitness(pop) == [num |-> SumFitness(pop), den |-> Len(pop)]

\* elites taken from the wrong end of the sorted population
ElitesWorst(pop, elitism_count) == PySlice(pop, Len(pop) - elitism_count, Len(pop))

\* elites built anew from the genes, without fitness and metrics
ElitesFresh(pop, elitism_count) ==
    [i \in 1..Len(PySlice(pop, 0, elitism_count)) |->
        KeyScheduleChromosome(pop[i].rotations, pop[i].rcon_multipliers)]

\* population[:self.elitism_count], deep-copied
Elites(pop, elitism_count) == PySlice(pop, 0, elitism_count)

\* random.sample(population, tournament_size): the ordered samples of distinct
\* positions
Samples(n) ==
    {s \in [1..TournamentSize -> 1..n] :
        \A i \in 1..TournamentSize, j \in 1..TournamentSize : i # j => s[i] # s[j]}

\* a tournament won by the chromosome sampled first
selection_tournament_first(pop, sample) == pop[sample[1]]

\* max(tournament, key=lambda x: x.fitness): the first of the sampled
\* chromosomes with the largest fitness
selection_tournament(pop, sample) ==
    LET best == CHOOSE i \in 1..Len(sample) :
                  /\ \A j \in 1..Len(sample) : pop[sample[i]].fitness >= pop[sample[j]].fitness
                  /\ \A j \in 1..(i - 1) : pop[sample[j]].fitness < pop[sample[i]].fitness
    IN  pop[sample[best]]

(***************************************************************************)
(* evaluate_fitness applied to drawn measurements                          *)
(***************************************************************************)
\* the measurements handed to the normalisation: every avalanche mean of 0 ..
\* 100 percent, entropies of 0 .. 8 bit in 1/1000 bit, encryption times of 0 ..
\* 10 ms in 1/100 ms
FitMeasurements ==
    {[avalanche_mean |-> a, avalanche_std |-> 0, entropy |-> e, enc_time |-> t] :
        a \in 0..100,
        e \in {0, 1, 999, 4000, 6865, 7999, 8000},
        t \in {0, 1, 5, 10, 1000}}

FitInit ==
    /\ op_rates = None
    /\ op_parents = << KeyScheduleChromosome(Neutral, Neutral) >>
    /\ op_draws \in FitMeasurements
    /\ op_children = None
    /\ op_name = "none"

\* chromosome.fitness = self.evaluate_fitness(chromosome) on the drawn
\* measurement
ApplyEvaluate ==
    /\ op_name = "none"
    /\ op_name' = "evaluate_fitness"
    /\ op_children' = << Evaluated(op_parents[1], op_draws) >>
    /\ UNCHANGED <<op_rates, op_parents, op_draws>>
    /\ UNCHANGED <<aesVars, gaVars, twinVars, restVars>>

FitNext == ApplyEvaluate

(***************************************************************************)
(* selection_tournament applied to drawn populations                       *)
(***************************************************************************)
\* largest population handed to a tournament
MaxTourPop == 4
\* number of fitness values the chromosomes of these populations take
MaxFit == 4

\* populations of 2 .. MaxTourPop chromosomes that differ in one gene, with any
\* fitness values (equal ones among them)
TourPopulations ==
    UNION { { [i \in 1..n |->
                 [KeyScheduleChromosome(GeneArray(1, i, 2), Neutral)
                    EXCEPT !.fitness = f[i]]] : f \in [1..n -> 1..MaxFit] } :
            n \in 2..MaxTourPop }

TourInit ==
    /\ op_rates = None
    /\ op_parents \in TourPopulations
    /\ op_draws = None
    /\ op_children = None
    /\ op_name = "none"

\* selection_tournament(population): random.sample raises ValueError when the
\* population is smaller than the tournament, and nothing is returned
ApplySelection ==
    /\ op_name = "none"
    /\ IF Len(op_parents) < TournamentSize
       THEN /\ op_name' = "ValueError"
            /\ UNCHANGED <<op_draws, op_children>>
       ELSE /\ op_name' = "selection_tournament"
            /\ \E sample \in Samples(Len(op_parents)) :
                  /\ op_draws' = sample
                  /\ op_children' = << selection_tournament(op_parents, sample) >>
    /\ UNCHANGED <<op_rates, op_parents>>
    /\ UNCHANGED <<aesVars, gaVars, twinVars, restVars>>

TourNext == ApplySelection

\* the draws of a mutate call inside evolve(): at most one low draw
EngineDraws ==
    {DrawVector(RandRes - 1, 1, pos, ra, va) :
        pos \in {1, 20}, ra \in RandomDraws, va \in Genes}

\* the cut points drawn inside evolve()
EngineCutPoints == {5}

(***************************************************************************)
(* GeneticAlgorithm.__init__ and evolve(), step by step                    *)
(***************************************************************************)
GAInit ==
    /\ config \in ValidConfigs
    /\ pc = "initialize"
    /\ generation = 0
    /\ population = << >>
    /\ next_generation = << >>
    /\ parents = None
    /\ children = None
    /\ best_chromosome = None
    /\ best_is_member = FALSE
    /\ best_fitness_history = << >>
    /\ avg_fitness_history = << >>
    /\ returned = None
    /\ hits = 0

\* where evolve() continues after the generation loop's test
LoopOrFinal(g) == IF g < config.num_generations THEN "generation" ELSE "final"

\* where evolve() continues after the test of the offspring loop
OffspringOrEvaluate(next) ==
    IF Len(next) < config.population_size THEN "select" ELSE "evaluate_new"

\* an initial population of random chromosomes only
InitializePopulationAllRandom ==
    /\ pc = "initialize"
    /\ population' \in [1..config.population_size -> RandomChromosomes]
    /\ pc' = "evaluate_initial"
    /\ UNCHANGED <<config, generation, next_generation, parents, children,
                   best_chromosome, best_is_member, best_fitness_history,
                   avg_fitness_history,
                   returned, hits>>
    /\ UNCHANGED <<aesVars, opVars, twinVars, restVars>>

\* population = self.initialize_population(): standard AES first, then
\* population_size - 1 random chromosomes
InitializePopulation ==
    /\ pc = "initialize"
    /\ \E randoms \in [1..(config.population_size - 1) -> RandomChromosomes] :
          population' = << KeyScheduleChromosome(Neutral, Neutral) >> \o randoms
    /\ pc' = "evaluate_initial"
    /\ UNCHANGED <<config, generation, next_generation, parents, children,
                   best_chromosome, best_is_member, best_fitness_history,
                   avg_fitness_history,
                   returned, hits>>
    /\ UNCHANGED <<aesVars, opVars, twinVars, restVars>>

\* for chromosome in population: chromosome.fitness = evaluate_fitness(...)
EvaluateInitial ==
    /\ pc = "evaluate_initial"
    /\ \E ms \in [1..Len(population) -> Measurements] :
          population' = [i \in 1..Len(population) |-> Evaluated(population[i], ms[i])]
    /\ pc' = LoopOrFinal(generation)
    /\ UNCHANGED <<config, generation, next_generation, parents, children,
                   best_chromosome, best_is_member, best_fitness_history,
                   avg_fitness_history,
                   returned, hits>>
    /\ UNCHANGED <<aesVars, opVars, twinVars, restVars>>

\* the head of one generation: sort, record the statistics, store the best
\* chromosome, start next_generation with the elites
GenerationHead ==
    /\ pc = "generation"
    /\ LET sorted == SortDesc(population)
           best_fitness == sorted[1].fitness
           next == Elites(sorted, config.elitism_count)
       IN  /\ population' = sorted
           /\ best_fitness_history' = Append(best_fitness_history, best_fitness)
           /\ avg_fitness_history' = Append(avg_fitness_history, MeanFitness(sorted))
           /\ best_chromosome' =
                 IF best_chromosome = None \/ best_fitness > best_chromosome[1].fitness
                 THEN Some(sorted[1]) ELSE best_chromosome
           \* copy.deepcopy(population[0]) is a new object
           /\ best_is_member' =
                 IF best_chromosome = None \/ best_fitness > best_chromosome[1].fitness
                 THEN FALSE ELSE best_is_member
           /\ next_generation' = next
           /\ pc' = OffspringOrEvaluate(next)
    /\ UNCHANGED <<config, generation, parents, children, returned, hits>>
    /\ UNCHANGED <<aesVars, opVars, twinVars, restVars>>

\* a selection whose tournaments draw with replacement, from a population of
\* any size
SelectWithReplacement ==
    /\ pc = "select"
    /\ \E s1 \in [1..TournamentSize -> 1..Len(population)],
          s2 \in [1..TournamentSize -> 1..Len(population)] :
          parents' = << selection_tournament(population, s1),
                        selection_tournament(population, s2) >>
    /\ pc' = "crossover"
    /\ UNCHANGED <<config, generation, population, next_generation, children,
                   best_chromosome, best_is_member, best_fitness_history,
                   avg_fitness_history,
                   returned, hits>>
    /\ UNCHANGED <<aesVars, opVars, twinVars, restVars>>

\* parent1, parent2 = two tournaments; random.sample raises ValueError when the
\* population is smaller than the tournament
Select ==
    /\ pc = "select"
    /\ IF Len(population) < TournamentSize
       THEN /\ pc' = "raised"
            /\ UNCHANGED parents
       ELSE /\ \E s1 \in Samples(Len(population)), s2 \in Samples(Len(population)) :
                  parents' = << selection_tournament(population, s1),
                                selection_tournament(population, s2) >>
            /\ pc' = "crossover"
    /\ UNCHANGED <<config, generation, population, next_generation, children,
                   best_chromosome, best_is_member, best_fitness_history,
                   avg_fitness_history,
                   returned, hits>>
    /\ UNCHANGED <<aesVars, opVars, twinVars, restVars>>

\* child1, child2 = self.crossover_single_point(parent1, parent2)
Crossover ==
    /\ pc = "crossover"
    /\ \E r \in RandomDraws, point \in EngineCutPoints :
          children' = crossover_single_point(parents[1], parents[2],
                                             config.crossover_rate, r, point)
    /\ parents' = None      \* parent1 and parent2 are not read again
    /\ pc' = "mutate1"
    /\ UNCHANGED <<config, generation, population, next_generation,
                   best_chromosome, best_is_member, best_fitness_history,
                   avg_fitness_history,
                   returned, hits>>
    /\ UNCHANGED <<aesVars, opVars, twinVars, restVars>>

\* child1 = self.mutate(child1) (which = 1), child2 = self.mutate(child2)
\* (which = 2)
MutateChild(which, draws) ==
    LET n == CountHits(draws, config.mutation_rate)
    IN  /\ hits + n <= MaxHits
        /\ hits' = hits + n
        /\ children' = [children EXCEPT
                          ![which] = mutate(@, config.mutation_rate, draws)]

Mutate1 ==
    /\ pc = "mutate1"
    /\ \E d \in EngineDraws : MutateChild(1, d)
    /\ pc' = "mutate2"
    /\ UNCHANGED <<config, generation, population, next_generation, parents,
                   best_chromosome, best_is_member, best_fitness_history,
                   avg_fitness_history, returned>>
    /\ UNCHANGED <<aesVars, opVars, twinVars, restVars>>

Mutate2 ==
    /\ pc = "mutate2"
    /\ \E d \in EngineDraws : MutateChild(2, d)
    /\ pc' = "append"
    /\ UNCHANGED <<config, generation, population, next_generation, parents,
                   best_chromosome, best_is_member, best_fitness_history,
                   avg_fitness_history, returned>>
    /\ UNCHANGED <<aesVars, opVars, twinVars, restVars>>

\* an append that adds both children whether or not a slot is left
AppendChildrenBoth ==
    /\ pc = "append"
    /\ LET next == Append(Append(next_generation, children[1]), children[2])
       IN  /\ next_generation' = next
           /\ pc' = OffspringOrEvaluate(next)
    /\ children' = None
    /\ UNCHANGED <<config, generation, population, parents,
                   best_chromosome, best_is_member, best_fitness_history,
                   avg_fitness_history,
                   returned, hits>>
    /\ UNCHANGED <<aesVars, opVars, twinVars, restVars>>

\* next_generation.append(child1), and child2 if a slot is left
AppendChildren ==
    /\ pc = "append"
    /\ LET one == Append(next_generation, children[1])
           next == IF Len(one) < config.population_size
                   THEN Append(one, children[2]) ELSE one
       IN  /\ next_generation' = next
           /\ pc' = OffspringOrEvaluate(next)
    /\ children' = None     \* child1 and child2 are not read again
    /\ UNCHANGED <<config, generation, population, parents,
                   best_chromosome, best_is_member, best_fitness_history,
                   avg_fitness_history,
                   returned, hits>>
    /\ UNCHANGED <<aesVars, opVars, twinVars, restVars>>

\* evaluate next_generation[self.elitism_count:], then population = next_generation:
\* the chromosomes are evaluated in place, and both names are the same list
EvaluateNew ==
    /\ pc = "evaluate_new"
    /\ \E ms \in [1..Len(next_generation) -> Measurements] :
          \* the measurements of the elites are not taken
          /\ \A i \in 1..Len(next_generation) :
                i <= config.elitism_count => ms[i] = CHOOSE m \in Measurements : TRUE
          /\ population' = [i \in 1..Len(next_generation) |->
                              IF i <= config.elitism_count
                              THEN next_generation[i]
                              ELSE Evaluated(next_generation[i], ms[i])]
    /\ next_generation' = population'
    \* the list `population` was bound to is dropped; the new one holds deep
    \* copies and children
    /\ best_is_member' = FALSE
    /\ generation' = generation + 1
    /\ pc' = LoopOrFinal(generation + 1)
    /\ UNCHANGED <<config, parents, children,
                   best_chromosome, best_fitness_history, avg_fitness_history,
                   returned, hits>>
    /\ UNCHANGED <<aesVars, opVars, twinVars, restVars>>

\* the final evaluation: sort, self.best_chromosome = population[0], return it
Finish ==
    /\ pc = "final"
    /\ LET sorted == SortDesc(population)
       IN  /\ population' = sorted
           /\ best_chromosome' = Some(sorted[1])
           \* population[0] itself is assigned, without a copy
           /\ best_is_member' = TRUE
           /\ returned' = Some(sorted[1])
    /\ pc' = "done"
    /\ UNCHANGED <<config, generation, next_generation, parents, children,
                   best_fitness_history, avg_fitness_history, hits>>
    /\ UNCHANGED <<aesVars, opVars, twinVars, restVars>>

\* get_evolution_history()
get_evolution_history ==
    [best_fitness |-> best_fitness_history,
     generations  |-> [i \in 1..Len(best_fitness_history) |-> i],
     avg_fitness  |-> avg_fitness_history]

\* an evolve() that starts with empty histories and no best chromosome
EvolveAgainFresh ==
    /\ pc = "done"
    /\ Len(best_fitness_history) = config.num_generations
    /\ pc' = "initialize"
    /\ generation' = 0
    /\ population' = << >>
    /\ next_generation' = << >>
    /\ best_chromosome' = None
    /\ best_is_member' = FALSE
    /\ best_fitness_history' = << >>
    /\ avg_fitness_history' = << >>
    /\ UNCHANGED <<config, parents, children, returned, hits>>
    /\ UNCHANGED <<aesVars, opVars, twinVars, restVars>>

\* a second evolve() on the engine that has returned: the locals start anew,
\* self.best_chromosome and the two histories are as the first call left them,
\* and the caller still holds what the first call returned
EvolveAgain ==
    /\ pc = "done"
    /\ Len(best_fitness_history) = config.num_generations
    /\ pc' = "initialize"
    /\ generation' = 0
    /\ population' = << >>
    /\ next_generation' = << >>
    \* the population the best chromosome is a member of is dropped
    /\ best_is_member' = FALSE
    /\ UNCHANGED <<config, parents, children, best_chromosome,
                   best_fitness_history, avg_fitness_history, returned, hits>>
    /\ UNCHANGED <<aesVars, opVars, twinVars, restVars>>

GANext ==
    \/ InitializePopulation
    \/ EvaluateInitial
    \/ GenerationHead
    \/ Select
    \/ Crossover
    \/ Mutate1
    \/ Mutate2
    \/ AppendChildren
    \/ EvaluateNew
    \/ Finish

(***************************************************************************)
(* One generation step of evolve() with chromosomes and gene lists as      *)
(* objects: a chromosome names its two lists by their identity, and        *)
(* mutate() writes into the lists of the chromosome it is given            *)
(***************************************************************************)
\* a chromosome object whose rotations and rcon_multipliers are the lists
\* rot_id and rcon_id
ChromosomeObject(rot_id, rcon_id) == [rotations |-> rot_id, rcon_multipliers |-> rcon_id]

\* the lists a chromosome holds
ListsOf(c) == {c.rotations, c.rcon_multipliers}

\* copy.deepcopy(c): a new chromosome with two new lists of the same content;
\* the value is <<heap afterwards, the copy>>
deepcopy(h, c) ==
    << h \o << h[c.rotations], h[c.rcon_multipliers] >>,
       ChromosomeObject(Len(h) + 1, Len(h) + 2) >>

\* copy.deepcopy of each chromosome of cs in turn
RECURSIVE deepcopy_each(_, _)
deepcopy_each(h, cs) ==
    IF cs = << >> THEN << h, << >> >>
    ELSE LET first == deepcopy(h, cs[1])
             rest  == deepcopy_each(first[1], Tail(cs))
         IN  << rest[1], << first[2] >> \o rest[2] >>

\* a crossover whose no-crossover branch returns the parents themselves
crossover_returns_parents(h, parent1, parent2, crossover_rate, r, point) ==
    IF r > crossover_rate
    THEN << h, << parent1, parent2 >> >>
    ELSE LET c == crossover_single_point(
                    [rotations |-> h[parent1.rotations],
                     rcon_multipliers |-> h[parent1.rcon_multipliers]],
                    [rotations |-> h[parent2.rotations],
                     rcon_multipliers |-> h[parent2.rcon_multipliers]],
                    crossover_rate, r, point)
         IN  << h \o << c[1].rotations, c[1].rcon_multipliers,
                        c[2].rotations, c[2].rcon_multipliers >>,
                << ChromosomeObject(Len(h) + 1, Len(h) + 2),
                   ChromosomeObject(Len(h) + 3, Len(h) + 4) >> >>

\* crossover_single_point on objects: two deep copies, or two chromosomes
\* built on the lists that the slices and `+` create
crossover_objects(h, parent1, parent2, crossover_rate, r, point) ==
    IF r > crossover_rate
    THEN LET a == deepcopy(h, parent1)
             b == deepcopy(a[1], parent2)
         IN  << b[1], << a[2], b[2] >> >>
    ELSE LET c == crossover_single_point(
                    [rotations |-> h[parent1.rotations],
                     rcon_multipliers |-> h[parent1.rcon_multipliers]],
                    [rotations |-> h[parent2.rotations],
                     rcon_multipliers |-> h[parent2.rcon_multipliers]],
                    crossover_rate, r, point)
         IN  << h \o << c[1].rotations, c[1].rcon_multipliers,
                        c[2].rotations, c[2].rcon_multipliers >>,
                << ChromosomeObject(Len(h) + 1, Len(h) + 2),
                   ChromosomeObject(Len(h) + 3, Len(h) + 4) >> >>

\* mutate(c): the assignments chromosome.rotations[i] = ... and
\* chromosome.rcon_multipliers[i] = ... change the two lists in place
mutate_in_place(h, c, mutation_rate, draws) ==
    LET v == mutate([rotations |-> h[c.rotations],
                     rcon_multipliers |-> h[c.rcon_multipliers]],
                    mutation_rate, draws)
    IN  [h EXCEPT ![c.rotations] = v.rotations,
                  ![c.rcon_multipliers] = v.rcon_multipliers]

\* the engines: crossover_rate 0 (a deep copy unless the draw is 0) or 1.0,
\* mutation_rate 1 / RandRes, population_size MaxPop
HeapConfigs ==
    [crossover_rate : {0, RandRes}, mutation_rate : {1}, elitism_count : 0..(MaxPop - 1)]

\* the draws of a mutate call: one gene is drawn low, or none
HeapDraws ==
    {DrawVector(RandRes - 1, 1, pos, ra, va) :
        pos \in {1, 20}, ra \in RandomDraws, va \in {3}}

\* the population at the head of a generation: every chromosome has two lists
\* of its own
HeapInit ==
    /\ heap = << Neutral, Neutral,
                 GeneArray(2, 1, 1), GeneArray(1, 10, 2),
                 GeneArray(1, 1, 2), GeneArray(2, 10, 1) >>
    /\ hp_population = [i \in 1..MaxPop |-> ChromosomeObject((2 * i) - 1, 2 * i)]
    /\ hp_config \in HeapConfigs
    /\ hp_pc = "head"
    /\ hp_next = << >>
    /\ hp_best = None
    /\ hp_parents = None
    /\ hp_children = None
    /\ hp_draws = None

HeapOffspringOrDone(next) == IF Len(next) < MaxPop THEN "select" ELSE "done"

\* self.best_chromosome = copy.deepcopy(population[0]);
\* next_generation.extend(copy.deepcopy(c) for c in population[:elitism_count])
HeapHead ==
    /\ hp_pc = "head"
    /\ LET b == deepcopy(heap, hp_population[1])
           e == deepcopy_each(b[1], PySlice(hp_population, 0, hp_config.elitism_count))
       IN  /\ hp_best' = Some(b[2])
           /\ hp_next' = e[2]
           /\ heap' = e[1]
           /\ hp_pc' = HeapOffspringOrDone(e[2])
    /\ UNCHANGED <<hp_config, hp_population, hp_parents, hp_children, hp_draws>>
    /\ UNCHANGED exceptHeap

\* parent1, parent2: each tournament returns one of the objects of population,
\* possibly the same one twice
HeapSelect(i, j) ==
    /\ hp_pc = "select"
    /\ hp_parents' = << hp_population[i], hp_population[j] >>
    /\ hp_pc' = "crossover"
    /\ UNCHANGED <<heap, hp_config, hp_population, hp_next, hp_best, hp_children,
                   hp_draws>>
    /\ UNCHANGED exceptHeap

\* child1, child2 = self.crossover_single_point(parent1, parent2)
HeapCrossover(r, point) ==
    /\ hp_pc = "crossover"
    /\ LET c == crossover_objects(heap, hp_parents[1], hp_parents[2],
                                  hp_config.crossover_rate, r, point)
       IN  /\ heap' = c[1]
           /\ hp_children' = c[2]
    /\ hp_draws' = [r |-> r, point |-> point]
    /\ hp_pc' = "mutate1"
    /\ UNCHANGED <<hp_config, hp_population, hp_next, hp_best, hp_parents>>
    /\ UNCHANGED exceptHeap

\* child1 = self.mutate(child1)
HeapMutate1(draws) ==
    /\ hp_pc = "mutate1"
    /\ heap' = mutate_in_place(heap, hp_children[1], hp_config.mutation_rate, draws)
    /\ hp_pc' = "mutate2"
    /\ UNCHANGED <<hp_config, hp_population, hp_next, hp_best, hp_parents,
                   hp_children, hp_draws>>
    /\ UNCHANGED exceptHeap

\* child2 = self.mutate(child2)
HeapMutate2(draws) ==
    /\ hp_pc = "mutate2"
    /\ heap' = mutate_in_place(heap, hp_children[2], hp_config.mutation_rate, draws)
    /\ hp_pc' = "append"
    /\ UNCHANGED <<hp_config, hp_population, hp_next, hp_best, hp_parents,
                   hp_children, hp_draws>>
    /\ UNCHANGED exceptHeap

\* next_generation.append(child1), and child2 if a slot is left
HeapAppend ==
    /\ hp_pc = "append"
    /\ LET one == Append(hp_next, hp_children[1])
           next == IF Len(one) < MaxPop THEN Append(one, hp_children[2]) ELSE one
       IN  /\ hp_next' = next
           /\ hp_pc' = HeapOffspringOrDone(next)
    /\ UNCHANGED <<heap, hp_config, hp_population, hp_best, hp_parents,
                   hp_children, hp_draws>>
    /\ UNCHANGED exceptHeap

HeapNext ==
    \/ HeapHead
    \/ \E i \in 1..MaxPop, j \in 1..MaxPop : HeapSelect(i, j)
    \/ \E r \in RandomDraws, point \in EngineCutPoints : HeapCrossover(r, point)
    \/ \E d \in HeapDraws : HeapMutate1(d)
    \/ \E d \in HeapDraws : HeapMutate2(d)
    \/ HeapAppend

(***************************************************************************)
(* The three specifications                                                *)
(***************************************************************************)
\* the parts a specification does not drive stay as constructed
AESIdle ==
    /\ rotations = Neutral
    /\ rcon_multipliers = Neutral
    /\ key = None
    /\ expanded_key = None
    /\ last_call = [method |-> "__init__", arg |-> None]
    /\ outcome = "returned"
    /\ result = None

OpsIdle ==
    /\ op_rates = None
    /\ op_parents = None
    /\ op_draws = None
    /\ op_children = None
    /\ op_name = "none"

GAIdle ==
    /\ config = None
    /\ pc = "idle"
    /\ generation = 0
    /\ population = << >>
    /\ next_generation = << >>
    /\ parents = None
    /\ children = None
    /\ best_chromosome = None
    /\ best_is_member = FALSE
    /\ best_fitness_history = << >>
    /\ avg_fitness_history = << >>
    /\ returned = None
    /\ hits = 0

TwinIdle ==
    /\ twins = None
    /\ twin_call = None
    /\ twin_wire = None
    /\ twin_out = None

HeapIdle ==
    /\ heap = << >>
    /\ hp_config = None
    /\ hp_pc = "idle"
    /\ hp_population = << >>
    /\ hp_next = << >>
    /\ hp_best = None
    /\ hp_parents = None
    /\ hp_children = None
    /\ hp_draws = None

AvalIdle ==
    /\ av_cipher = None
    /\ av_key = None
    /\ av_num_tests = 0
    /\ av_trial = None
    /\ av_percentages = << >>
    /\ av_result = None

ClientIdle ==
    /\ ic_latencies = << >>
    /\ ic_messages_sent = 0
    /\ ic_retry_count = 0
    /\ ic_attempt = 0
    /\ ic_pc = "idle"
    /\ ic_sockets = << >>
    /\ ic_outcomes = << >>
    /\ ic_exit = None
    /\ ic_result = None
    /\ ic_calls = 0

ServerIdle ==
    /\ sv_aes = None
    /\ sv_key = None
    /\ sv_metrics = << >>
    /\ sv_lock = 0
    /\ cl_aes = << >>
    /\ cl_results = << >>
    /\ th_pc = << >>
    /\ th_msg = << >>
    /\ th_data = << >>
    /\ th_metrics = << >>
    /\ th_loaded = << >>
    /\ rt_out = None

BridgeIdle ==
    /\ br_packets_sent = << >>
    /\ br_packets_received = << >>
    /\ br_statistics = None
    /\ br_call = None
    /\ br_result = None
    /\ br_clock = 0

RestIdle == HeapIdle /\ AvalIdle /\ ClientIdle /\ ServerIdle /\ BridgeIdle

InitAES == AESInit /\ OpsIdle /\ GAIdle /\ TwinIdle /\ RestIdle
SpecAES == InitAES /\ [][AESNext]_vars

InitOps == AESIdle /\ OpsInit /\ GAIdle /\ TwinIdle /\ RestIdle
SpecOps == InitOps /\ [][OpsNext]_vars

InitGA == AESIdle /\ OpsIdle /\ GAInit /\ TwinIdle /\ RestIdle
SpecGA == InitGA /\ [][GANext]_vars

\* evolve() with crossover_rate 0 and mutation_rate 1 / RandRes, where a child
\* is a deep copy of its parent whenever the draw is above 0, and may be
\* mutated afterwards
GACopyInit ==
    /\ config \in {[crossover_rate |-> 0, mutation_rate |-> 1,
                     population_size |-> MaxPop, elitism_count |-> e,
                     num_generations |-> 1] : e \in 0..(MaxPop - 1)}
    /\ pc = "initialize"
    /\ generation = 0
    /\ population = << >>
    /\ next_generation = << >>
    /\ parents = None
    /\ children = None
    /\ best_chromosome = None
    /\ best_is_member = FALSE
    /\ best_fitness_history = << >>
    /\ avg_fitness_history = << >>
    /\ returned = None
    /\ hits = 0

InitGACopy == AESIdle /\ OpsIdle /\ GACopyInit /\ TwinIdle /\ RestIdle
SpecGACopy == InitGACopy /\ [][GANext]_vars

\* evolve() called twice on one engine of MaxPop chromosomes that keeps all but
\* one of them as elites and mutates nothing
GAAgainInit ==
    /\ config \in {c \in ValidConfigs :
                      /\ c.population_size = MaxPop
                      /\ c.elitism_count = MaxPop - 1
                      /\ c.mutation_rate = 0}
    /\ pc = "initialize"
    /\ generation = 0
    /\ population = << >>
    /\ next_generation = << >>
    /\ parents = None
    /\ children = None
    /\ best_chromosome = None
    /\ best_is_member = FALSE
    /\ best_fitness_history = << >>
    /\ avg_fitness_history = << >>
    /\ returned = None
    /\ hits = 0

GAAgainNext == GANext \/ EvolveAgain

InitGAAgain == AESIdle /\ OpsIdle /\ GAAgainInit /\ TwinIdle /\ RestIdle
SpecGAAgain == InitGAAgain /\ [][GAAgainNext]_vars

InitTour == AESIdle /\ TourInit /\ GAIdle /\ TwinIdle /\ RestIdle
SpecTour == InitTour /\ [][TourNext]_vars

InitFit == AESIdle /\ FitInit /\ GAIdle /\ TwinIdle /\ RestIdle
SpecFit == InitFit /\ [][FitNext]_vars

InitHeap == AESIdle /\ OpsIdle /\ GAIdle /\ TwinIdle /\ HeapInit /\ AvalIdle /\ ClientIdle /\ ServerIdle /\ BridgeIdle
SpecHeap == InitHeap /\ [][HeapNext]_vars

InitAval == AESIdle /\ OpsIdle /\ GAIdle /\ TwinIdle /\ HeapIdle /\ AvalInit /\ ClientIdle /\ ServerIdle /\ BridgeIdle
SpecAval == InitAval /\ [][AvalNext]_vars

InitClient == AESIdle /\ OpsIdle /\ GAIdle /\ TwinIdle /\ HeapIdle /\ AvalIdle /\ ClientInit /\ ServerIdle /\ BridgeIdle
SpecClient == InitClient /\ [][ClientNext]_vars

InitServer == AESIdle /\ OpsIdle /\ GAIdle /\ TwinIdle /\ HeapIdle /\ AvalIdle /\ ClientIdle /\ ServerInit /\ BridgeIdle
SpecServer == InitServer /\ [][ServerNext]_vars

InitBridge == AESIdle /\ OpsIdle /\ GAIdle /\ TwinIdle /\ HeapIdle /\ AvalIdle /\ ClientIdle /\ ServerIdle /\ BridgeInit
SpecBridge == InitBridge /\ [][BridgeNext]_vars

InitTwin == AESIdle /\ OpsIdle /\ GAIdle /\ TwinInit /\ RestIdle
SpecTwin == InitTwin /\ [][TwinNext]_vars

(***************************************************************************)
(* Properties of the key expansion (SpecAES)                               *)
(***************************************************************************)
\* the argument of the last call, when it was given a key
CalledWithKey == last_call.method \in {"custom_key_expansion", "encrypt", "decrypt"}
LastKey == last_call.arg[1]

GeneArrayOK(a) == Len(a) = 10 /\ \A i \in 1..Len(a) : a[i] \in Genes

\* C1: for every 16-byte key and every pair of length-10 parameter arrays with
\* genes in {1,2,3}, custom_key_expansion returns exactly 176 bytes whose bytes
\* 0..15 are the key unchanged.
C1_ExpansionLengthAndKeyPrefix ==
    ( /\ last_call.method = "custom_key_expansion"
      /\ Len(LastKey) = 16
      /\ GeneArrayOK(rotations) /\ GeneArrayOK(rcon_multipliers) )
    => /\ outcome = "returned"
       /\ result # None
       /\ Len(result[1]) = 176
       /\ \A i \in 1..16 : result[1][i] = LastKey[i]

\* a 16-byte key expanded under parameters that are not the neutral ones
C1_Witness ==
    /\ last_call.method = "custom_key_expansion"
    /\ Len(LastKey) = 16
    /\ rotations # Neutral /\ rcon_multipliers # Neutral
    /\ outcome = "returned"
    /\ Len(result[1]) = 176

\* the AES-128 key expansion of FIPS-197 (section 5.2), on 4-byte words:
\* w[i] = w[i-4] xor t, with t = SubWord(RotWord(w[i-1])) xor Rcon[i/4] when
\* i mod 4 = 0 and t = w[i-1] otherwise
FipsRotWord(w) == << w[2], w[3], w[4], w[1] >>
FipsSubWord(w) == << SBOX[w[1] + 1], SBOX[w[2] + 1], SBOX[w[3] + 1], SBOX[w[4] + 1] >>
FipsXorWord(a, b) == << Xor(a[1], b[1]), Xor(a[2], b[2]), Xor(a[3], b[3]), Xor(a[4], b[4]) >>
FipsRcon(j) == << RCON[j], 0, 0, 0 >>

RECURSIVE FipsWords(_, _)
FipsWords(w, i) ==
    IF i = 44 THEN w
    ELSE LET t == IF i % 4 = 0
                  THEN FipsXorWord(FipsSubWord(FipsRotWord(w[i])), FipsRcon(i \div 4))
                  ELSE w[i]
         IN  FipsWords(Append(w, FipsXorWord(w[i - 3], t)), i + 1)

FipsKeyExpansion(k) ==
    LET w == FipsWords([j \in 1..4 |-> << k[4*j - 3], k[4*j - 2], k[4*j - 1], k[4*j] >>], 4)
    IN  [b \in 1..176 |-> w[((b - 1) \div 4) + 1][((b - 1) % 4) + 1]]

\* the published expansion of the key 00 01 02 ... 0f (FIPS-197, appendix C.1:
\* the 11 round keys in order)
FipsSchedule000102 ==
<<
    0, 1, 2, 3, 4, 5, 6, 7, 8, 9, 10, 11, 12, 13, 14, 15,
    214, 170, 116, 253, 210, 175, 114, 250, 218, 166, 120, 241, 214, 171, 118, 254,
    182, 146, 207, 11, 100, 61, 189, 241, 190, 155, 197, 0, 104, 48, 179, 254,
    182, 255, 116, 78, 210, 194, 201, 191, 108, 89, 12, 191, 4, 105, 191, 65,
    71, 247, 247, 188, 149, 53, 62, 3, 249, 108, 50, 188, 253, 5, 141, 253,
    60, 170, 163, 232, 169, 159, 157, 235, 80, 243, 175, 87, 173, 246, 34, 170,
    94, 57, 15, 125, 247, 166, 146, 150, 167, 85, 61, 193, 10, 163, 31, 107,
    20, 249, 112, 26, 227, 95, 226, 140, 68, 10, 223, 77, 78, 169, 192, 38,
    71, 67, 135, 53, 164, 28, 101, 185, 224, 22, 186, 244, 174, 191, 122, 210,
    84, 153, 50, 209, 240, 133, 87, 104, 16, 147, 237, 156, 190, 44, 151, 78,
    19, 17, 29, 127, 227, 148, 74, 23, 243, 7, 167, 139, 77, 43, 48, 197 >>

\* C2: with rotations = [1]*10 and rcon_multipliers = [1]*10 the expansion is
\* the standard AES-128 key schedule: the published schedule for the key
\* 00 01 ... 0f, and the FIPS-197 expansion for every 16-byte test key; the
\* schedule encrypt and decrypt store is the same one.
C2_NeutralIsStandardSchedule ==
    ( /\ rotations = Neutral /\ rcon_multipliers = Neutral
      /\ CalledWithKey
      /\ Len(LastKey) = 16 )
    => LET schedule == IF last_call.method = "custom_key_expansion"
                       THEN result ELSE expanded_key
       IN  /\ schedule = Some(FipsKeyExpansion(LastKey))
           /\ LastKey = KeyBytes(16, 1) => schedule = Some(FipsSchedule000102)

\* the neutral instance expanded 00 01 ... 0f; d6 aa 74 fd starts round key 1
C2_Witness ==
    /\ rotations = Neutral /\ rcon_multipliers = Neutral
    /\ last_call.method = "custom_key_expansion"
    /\ LastKey = KeyBytes(16, 1)
    /\ outcome = "returned"
    /\ SubSeq(result[1], 17, 20) = << 214, 170, 116, 253 >>

\* C3 (as claimed): a call given a key whose length is not 16 bytes fails and
\* returns no expanded schedule (nor a ciphertext), for shorter and for longer
\* keys.
C3_WrongKeyLengthFails ==
    ( CalledWithKey /\ Len(LastKey) # 16 )
    => /\ outcome # "returned"
       /\ result = None

\* a parameter array padded with 1s to 10 entries
PadOnes(a) == a \o [i \in 1..(10 - Len(a)) |-> 1]

\* C14: on an instance of which a parameter array has fewer than 10 entries,
\* the expansion of a 16-byte key raises nothing and returns what the expansion
\* returns with each array padded with 1s to length 10.
C14_ShortArraysDefaultToOne ==
    ( /\ last_call.method = "custom_key_expansion"
      /\ Len(LastKey) = 16
      /\ (Len(rotations) < 10 \/ Len(rcon_multipliers) < 10) )
    => /\ outcome = "returned"
       /\ Return(result)
            = custom_key_expansion(LastKey, PadOnes(rotations), PadOnes(rcon_multipliers))

\* six rotations of which the first is 2, no multiplier at all: the schedule
\* has 176 bytes and is not the standard one
C14_Witness ==
    /\ last_call.method = "custom_key_expansion"
    /\ Len(LastKey) = 16
    /\ Len(rotations) = 6 /\ rotations[1] = 2
    /\ rcon_multipliers = << >>
    /\ outcome = "returned"
    /\ Len(result[1]) = 176
    /\ result[1] # FipsKeyExpansion(LastKey)

\* word i (0-based) of a schedule e: its bytes 4i .. 4i+3
WordAt(e, i) == << e[4*i + 1], e[4*i + 2], e[4*i + 3], e[4*i + 4] >>

\* the word w rotated left by n bytes
RotatedLeft(w, n) == [j \in 1..4 |-> w[((j - 1 + n) % 4) + 1]]

\* the temp of a word index i that is a multiple of 4, from the word before it:
\* rotated left by rotations[round] mod 4, substituted byte by byte, the first
\* byte xored with (Rcon[round] * rcon_multipliers[round]) mod 256
KeyedTemp(e, i, rots, rcons) ==
    LET round == (i \div 4) - 1
        sub   == FipsSubWord(RotatedLeft(WordAt(e, i - 1), rots[round + 1] % 4))
    IN  << Xor(sub[1], (RCON[round + 1] * rcons[round + 1]) % 256),
           sub[2], sub[3], sub[4] >>

\* C16: in the schedule expanded from a 16-byte key under two length-10
\* parameter arrays, every word i of 4..43 is word i-4 xor temp, where temp is
\* word i-1 when i mod 4 # 0 and the rotated, substituted, rcon-xored word i-1
\* when i mod 4 = 0.
C16_WordRecurrence ==
    ( /\ last_call.method = "custom_key_expansion"
      /\ Len(LastKey) = 16
      /\ Len(rotations) = 10 /\ Len(rcon_multipliers) = 10 )
    => /\ outcome = "returned"
       /\ Len(result[1]) = 176
       /\ \A i \in 4..43 :
             WordAt(result[1], i)
               = FipsXorWord(IF i % 4 = 0
                             THEN KeyedTemp(result[1], i, rotations, rcon_multipliers)
                             ELSE WordAt(result[1], i - 1),
                             WordAt(result[1], i - 4))

\* a schedule under rotation 3 and multiplier 2 in round 7, where
\* Rcon[7] * 2 = 256 is reduced to 0
C16_Witness ==
    /\ last_call.method = "custom_key_expansion"
    /\ Len(LastKey) = 16
    /\ Len(rotations) = 10 /\ rotations[8] = 3
    /\ Len(rcon_multipliers) = 10 /\ rcon_multipliers[8] = 2
    /\ RCON[8] * rcon_multipliers[8] = 256
    /\ outcome = "returned"
    /\ WordAt(result[1], 32)
         = FipsXorWord(FipsSubWord(RotatedLeft(WordAt(result[1], 31), 3)),
                       WordAt(result[1], 28))

\* C21 (as claimed): get_key_schedule_entropy returns 0 on an instance on which
\* neither encrypt nor decrypt was called; after any encrypt or decrypt call it
\* returns the entropy of the schedule expanded from the key of the most recent
\* of these calls under the instance's parameters.
C21_EntropyOfLastCallKey ==
    last_call.method = "get_key_schedule_entropy"
    => IF key = None THEN result = Some(0)
       ELSE /\ Expansion(key[1]).raised = "none"
            /\ result = Some(get_key_schedule_entropy(Expansion(key[1]).value))

\* the last encrypt or decrypt call raised inside the key expansion
ExpansionRaised == key # None /\ Expansion(key[1]).raised # "none"

\* C21 (amended): get_key_schedule_entropy returns 0 while no encrypt or decrypt
\* call was made; after a call whose key expansion returned it is the entropy of
\* the schedule expanded from that call's key under the instance's parameters
\* (6.865515 bit for the standard schedule of 00 01 ... 0f); a call whose key
\* expansion raised stores the key and leaves the schedule, and so the entropy,
\* as it was.
C21_EntropyOfLastExpandedKey ==
    /\ [](last_call.method = "get_key_schedule_entropy"
          => /\ key = None => result = Some(0)
             /\ (key # None /\ ~ExpansionRaised)
                  => /\ result = Some(ShannonEntropy(Expansion(key[1]).value[1]))
                     /\ Expansion(key[1]).value = Some(FipsSchedule000102)
                          => Abs(result[1] - 6865515) <= 10)
    /\ [][(last_call'.method \in {"encrypt", "decrypt"} /\ ExpansionRaised')
            => /\ key' = last_call'.arg
               /\ get_key_schedule_entropy(expanded_key')
                    = get_key_schedule_entropy(expanded_key)]_vars

\* the entropy read after an encrypt under a 16-byte key on an instance with
\* other parameters than the standard ones: between 6 and log2(176) bit
C21_Witness ==
    /\ last_call.method = "get_key_schedule_entropy"
    /\ key # None /\ Len(key[1]) = 16
    /\ rotations # Neutral /\ Len(rotations) = 10
    /\ expanded_key = Expansion(key[1]).value
    /\ result[1] > 6000000 /\ result[1] <= Log2Micro[176]

(***************************************************************************)
(* Properties of evolve() (SpecGA)                                         *)
(***************************************************************************)
\* C4: with elitism_count >= 1 the recorded best fitness never decreases from
\* one generation to the next.
C4_BestFitnessNonDecreasing ==
    config.elitism_count >= 1
    => \A g \in 1..(Len(best_fitness_history) - 1) :
          best_fitness_history[g + 1] >= best_fitness_history[g]

\* two generations recorded with an elite kept, the second population holding
\* an offspring worse than the recorded best
C4_Witness ==
    /\ config.elitism_count >= 1
    /\ Len(best_fitness_history) = 2
    /\ pc = "select"
    /\ \E i \in 1..Len(population) : population[i].fitness < best_fitness_history[2]

\* C5 (as claimed): the chromosome evolve() returns has a fitness at least as
\* large as every recorded best fitness, for every elitism_count >= 0.
C5_ReturnedIsAllTimeBest ==
    pc = "done"
    => \A g \in 1..Len(best_fitness_history) :
          returned[1].fitness >= best_fitness_history[g]

\* C6 (as claimed): with population_size >= elitism_count + 1 and
\* num_generations >= 1, evolve() ends by returning, after exactly
\* num_generations recorded generations, and get_evolution_history() reports
\* the generations 1 .. num_generations.
C6_RunsAllGenerations ==
    pc \in {"done", "raised"}
    => /\ pc = "done"
       /\ generation = config.num_generations
       /\ Len(best_fitness_history) = config.num_generations
       /\ Len(avg_fitness_history) = config.num_generations
       /\ get_evolution_history.generations = [i \in 1..config.num_generations |-> i]

ChromosomeOK(c) == GeneArrayOK(c.rotations) /\ GeneArrayOK(c.rcon_multipliers)

AllOK(cs) == \A i \in 1..Len(cs) : ChromosomeOK(cs[i])

\* C7: every chromosome of the population and of the next generation, the
\* selected parents, the children of crossover and mutation, the retained best
\* chromosome and the returned one have 10 rotations and 10 rcon multipliers,
\* each in {1,2,3}.
C7_GenesInDomain ==
    /\ AllOK(population)
    /\ AllOK(next_generation)
    /\ AllOK(parents)
    /\ AllOK(children)
    /\ AllOK(best_chromosome)
    /\ AllOK(returned)

\* children that were crossed over, one of them mutated, about to be appended
C7_Witness ==
    /\ pc = "append"
    /\ hits >= 1
    /\ children[1].metrics = EmptyMetrics
    /\ children[1].rotations # children[2].rotations
    /\ \A i \in 1..Len(population) : children[1].rotations # population[i].rotations

\* C11: once initialize_population has run, the population has exactly
\* population_size chromosomes in every state of evolve(): at the start of each
\* generation step and when evolve() returns; the offspring loop never overfills
\* the next generation and leaves it with exactly population_size chromosomes,
\* for an odd and for an even number of free slots.
C11_PopulationSizeFixed ==
    /\ pc # "initialize" => Len(population) = config.population_size
    /\ Len(next_generation) <= config.population_size
    /\ pc = "evaluate_new" => Len(next_generation) = config.population_size

\* evolve() returned after a generation whose three free slots were filled by
\* two rounds of the offspring loop, the second child of the last round dropped
C11_Witness ==
    /\ pc = "done"
    /\ generation >= 1
    /\ config.population_size - config.elitism_count = 3
    /\ Len(population) = 3
    /\ Len(next_generation) = 3

\* C15: the population initialize_population returns has population_size
\* slots; slot 0 is the neutral baseline (10 rotations and 10 rcon multipliers,
\* all 1), the other slots are chromosomes with 10 + 10 genes in {1,2,3}; none
\* is evaluated yet.
C15_InitialPopulation ==
    pc = "evaluate_initial"
    => /\ Len(population) = config.population_size
       /\ population[1].rotations = [i \in 1..10 |-> 1]
       /\ population[1].rcon_multipliers = [i \in 1..10 |-> 1]
       /\ \A i \in 1..Len(population) :
             /\ ChromosomeOK(population[i])
             /\ population[i].fitness = 0
             /\ population[i].metrics = EmptyMetrics

\* an initial population of three: the baseline and two different random
\* chromosomes
C15_Witness ==
    /\ pc = "evaluate_initial"
    /\ Len(population) = 3
    /\ population[2].rotations # Neutral
    /\ population[3].rotations # Neutral
    /\ population[2] # population[3]

\* b holds the chromosomes of a, in any order
IsPermutation(a, b) ==
    /\ Len(a) = Len(b)
    /\ \E f \in [1..Len(a) -> 1..Len(a)] :
          /\ \A i \in 1..Len(a), j \in 1..Len(a) : i # j => f[i] # f[j]
          /\ \A i \in 1..Len(a) : b[i] = a[f[i]]

SortedDesc(a) == \A i \in 1..Len(a), j \in 1..Len(a) : i < j => a[i].fitness >= a[j].fitness

EliteSlots == 1..config.elitism_count

\* C17: the head of a generation step sorts the population by descending
\* fitness and puts its first elitism_count chromosomes at the front of the next
\* generation; selection, crossover, mutation and the appends leave these
\* slots as they are, and the evaluation of the new generation moves them into
\* the new population with the same genes, fitness and metrics.
C17_ElitesCarriedUnchanged ==
    [][ /\ pc = "generation"
           => /\ IsPermutation(population, population')
              /\ SortedDesc(population')
              /\ Len(next_generation') = config.elitism_count
              /\ \A i \in EliteSlots : next_generation'[i] = population'[i]
        /\ pc \in {"select", "crossover", "mutate1", "mutate2", "append"}
           => \A i \in EliteSlots : next_generation'[i] = next_generation[i]
        /\ pc = "evaluate_new"
           => \A i \in EliteSlots : population'[i] = next_generation[i]
      ]_vars

\* the second generation starts with the elite of the first as recorded, next
\* to an offspring that is fitter than it
C17_Witness ==
    /\ pc = "generation"
    /\ generation = 1
    /\ config.elitism_count = 1
    /\ population[1] = best_chromosome[1]
    /\ population[1].fitness = best_fitness_history[1]
    /\ \E i \in 2..Len(population) : population[i].fitness > population[1].fitness

\* the fitness and the metrics of c are what evaluate_fitness produced from
\* the genes c has now
EvaluatedOnCurrentGenes(c) ==
    /\ c.measured = Some(to_params(c))
    /\ c.metrics \in {Metrics(m) : m \in Measurements}
    /\ c.fitness = Fitness(c.metrics)

\* C19: where evolve() sorts the population, records the statistics or runs a
\* tournament (the head of a generation step, the offspring loop, the final
\* sort), every chromosome of the population carries the fitness and metrics
\* of an evaluation of its current genes; so does the chromosome returned. A
\* deep copy of a parent, mutated or not, has been evaluated again.
C19_RankedOnCurrentEvaluation ==
    /\ pc \in {"generation", "select", "crossover", "mutate1", "mutate2", "append",
                "final", "done"}
       => \A i \in 1..Len(population) : EvaluatedOnCurrentGenes(population[i])
    /\ returned # None => EvaluatedOnCurrentGenes(returned[1])

\* after the evaluation of the new generation: the final population holds an
\* offspring that differs in one mutated gene from a chromosome of the initial
\* population, evaluated on the genes it has now
C19_Witness ==
    /\ pc = "final"
    /\ config.crossover_rate = 0
    /\ hits >= 1
    /\ \E i \in (config.elitism_count + 1)..Len(population) :
          /\ to_params(population[i])
                \notin {to_params(c) : c \in RandomChromosomes
                                            \cup {KeyScheduleChromosome(Neutral, Neutral)}}
          /\ \E c \in RandomChromosomes \cup {KeyScheduleChromosome(Neutral, Neutral)} :
                Cardinality({g \in 1..10 : population[i].rotations[g] # c.rotations[g]})
                  + Cardinality({g \in 1..10 :
                       population[i].rcon_multipliers[g] # c.rcon_multipliers[g]}) = 1
          /\ EvaluatedOnCurrentGenes(population[i])

\* C20 (as claimed): in every state of evolve() and after it returned, the
\* retained best chromosome is an object of its own, none of the objects in
\* the population.
C20_BestIsSeparateObject ==
    best_chromosome # None => ~best_is_member

(***************************************************************************)
(* Properties of the genetic operators (SpecOps)                           *)
(***************************************************************************)
SameGenes(c, d) ==
    c.rotations = d.rotations /\ c.rcon_multipliers = d.rcon_multipliers

\* C8 (as claimed): with crossover_rate = 0, crossover_single_point returns
\* copies of parent1 and parent2 whatever the random source returns.
C8_RateZeroReturnsCopies ==
    ( op_name = "crossover_single_point" /\ op_rates.crossover_rate = 0 )
    => /\ SameGenes(op_children[1], op_parents[1])
       /\ SameGenes(op_children[2], op_parents[2])

\* a is x before the cut point p (0-based indices [0, p)) and y from it on
CutOf(a, x, y, p) ==
    /\ Len(a) = 10
    /\ \A i \in 1..10 : a[i] = IF i <= p THEN x[i] ELSE y[i]

\* C9: with crossover_rate = 1 the operator always crosses, at one cut point p
\* in 1..9 for both arrays: child1 is parent1 before p and parent2 from p on,
\* child2 the complement, so at every index the two child genes are the two
\* parent genes.
C9_RateOneCrossesAtOnePoint ==
    ( op_name = "crossover_single_point" /\ op_rates.crossover_rate = RandRes )
    => /\ \E p \in 1..9 :
             /\ p = op_draws.point
             /\ CutOf(op_children[1].rotations,
                      op_parents[1].rotations, op_parents[2].rotations, p)
             /\ CutOf(op_children[1].rcon_multipliers,
                      op_parents[1].rcon_multipliers, op_parents[2].rcon_multipliers, p)
             /\ CutOf(op_children[2].rotations,
                      op_parents[2].rotations, op_parents[1].rotations, p)
             /\ CutOf(op_children[2].rcon_multipliers,
                      op_parents[2].rcon_multipliers, op_parents[1].rcon_multipliers, p)
       /\ \A i \in 1..10 :
             /\ << op_children[1].rotations[i], op_children[2].rotations[i] >>
                  \in { << op_parents[1].rotations[i], op_parents[2].rotations[i] >>,
                        << op_parents[2].rotations[i], op_parents[1].rotations[i] >> }
             /\ << op_children[1].rcon_multipliers[i], op_children[2].rcon_multipliers[i] >>
                  \in { << op_parents[1].rcon_multipliers[i], op_parents[2].rcon_multipliers[i] >>,
                        << op_parents[2].rcon_multipliers[i], op_parents[1].rcon_multipliers[i] >> }

\* a crossing at rate 1 of parents whose rotations differ on both sides of the
\* cut: each child differs from both parents
C9_Witness ==
    /\ op_name = "crossover_single_point"
    /\ op_rates.crossover_rate = RandRes
    /\ op_draws.point = 4
    /\ \A j \in 1..2, k \in 1..2 : op_children[j].rotations # op_parents[k].rotations
    /\ op_children[1].rotations # op_children[2].rotations

\* C10: with mutation_rate = 0, mutate leaves all 20 genes unchanged whatever
\* the random source returns.
C10_RateZeroMutatesNothing ==
    ( op_name = "mutate" /\ op_rates.mutation_rate = 0 )
    => /\ Len(op_children) = 1
       /\ SameGenes(op_children[1], op_parents[1])

\* a mutate call at rate 0 in which every draw was 0.0, the lowest value of
\* the random source, and the value to write differs from the gene
C10_Witness ==
    /\ op_name = "mutate"
    /\ op_rates.mutation_rate = 0
    /\ \A i \in 1..NumGenes : op_draws[i].r = 0
    /\ op_draws[1].v # op_parents[1].rotations[1]
    /\ op_draws[NumGenes].v # op_parents[1].rcon_multipliers[10]

(***************************************************************************)
(* Properties of selection_tournament (SpecTour)                           *)
(***************************************************************************)
DistinctFitness(pop) ==
    \A i \in 1..Len(pop), j \in 1..Len(pop) : i # j => pop[i].fitness # pop[j].fitness

\* C18: a tournament that returns leaves the population as it was and returns
\* one of 3 chromosomes sampled at distinct positions of it, one whose fitness
\* is the largest of the three; so when all fitnesses differ, at least two
\* chromosomes of the population are less fit than the one returned.
C18_TournamentReturnsFittestSampled ==
    [][ op_name' = "selection_tournament"
        => /\ op_parents' = op_parents
           /\ Len(op_draws') = 3
           /\ \A i \in 1..3, j \in 1..3 : i # j => op_draws'[i] # op_draws'[j]
           /\ \A j \in 1..3 : op_draws'[j] \in 1..Len(op_parents)
           /\ \E j \in 1..3 : op_children'[1] = op_parents[op_draws'[j]]
           /\ \A j \in 1..3 : op_children'[1].fitness >= op_parents[op_draws'[j]].fitness
           /\ DistinctFitness(op_parents)
              => Cardinality({i \in 1..Len(op_parents) :
                                op_parents[i].fitness < op_children'[1].fitness}) >= 2
      ]_vars

\* a population of four with four different fitnesses; the fittest of them was
\* not sampled, and the winner was not the first one sampled
C18_Witness ==
    /\ op_name = "selection_tournament"
    /\ Len(op_parents) = 4
    /\ DistinctFitness(op_parents)
    /\ op_children[1] # op_parents[op_draws[1]]
    /\ \E i \in 1..4 : op_parents[i].fitness > op_children[1].fitness
    /\ Cardinality({i \in 1..4 : op_parents[i].fitness < op_children[1].fitness}) = 2


(***************************************************************************)
(* Properties of evaluate_fitness (SpecFit)                                *)
(***************************************************************************)
\* C22: for every avalanche mean in [0,100] the avalanche score
\* max(0, 1 - |mean-50|/50) lies in [0,1] and is 1 only at mean = 50; with the
\* entropy score entropy/8 for an entropy in [0,8] and the speed score
\* 1/(1+10*t) for t >= 0, the fitness 0.4*avalanche + 0.3*entropy + 0.3*speed
\* lies in [0,1]. Scores are in 1/1000, the fitness in 1/10000.
C22_FitnessInUnitInterval ==
    op_name = "evaluate_fitness"
    => LET m  == op_draws
           mt == op_children[1].metrics
       IN  /\ mt.avalanche_score \in 0..1000
           /\ mt.avalanche_score = 1000 <=> m.avalanche_mean = 50
           /\ mt.avalanche_score = 1000 - (20 * Abs(m.avalanche_mean - 50))
           /\ mt.entropy_score \in 0..1000
           /\ 8 * mt.entropy_score <= m.entropy
           /\ m.entropy < 8 * (mt.entropy_score + 1)
           /\ mt.speed_score \in 0..1000
           /\ mt.speed_score * (100 + (10 * m.enc_time)) <= 100000
           /\ 100000 < (mt.speed_score + 1) * (100 + (10 * m.enc_time))
           /\ op_children[1].fitness
                = (4 * mt.avalanche_score) + (3 * mt.entropy_score) + (3 * mt.speed_score)
           /\ op_children[1].fitness \in 0..10000

\* the largest fitness, 1.0: mean 50, entropy 8 bit, time 0
C22_Witness ==
    /\ op_name = "evaluate_fitness"
    /\ op_draws.avalanche_mean = 50 /\ op_draws.entropy = 8000 /\ op_draws.enc_time = 0
    /\ op_children[1].metrics.avalanche_score = 1000
    /\ op_children[1].fitness = 10000

(***************************************************************************)
(* Properties of two instances given the same calls (SpecTwin)             *)
(***************************************************************************)
\* C12: for every plaintext, every 16-byte key and every two parameter sets,
\* decrypting under the key a ciphertext that encrypt returned under the same
\* key gives back the plaintext, also when the decrypting instance was built
\* with other parameters than the encrypting one.
C12_DecryptInvertsEncrypt ==
    ( /\ twin_call.method = "decrypt"
      /\ twin_call.key = Some(twin_wire[1].key)
      /\ Len(twin_wire[1].key) = 16 )
    => \A i \in 1..2 : twin_out[i] = Return(Some(twin_wire[1].arg))

\* the two-byte plaintext, padded to a block by encrypt, came back from both
\* instances, whose parameters and schedules differ
C12_Witness ==
    /\ twin_call.method = "decrypt"
    /\ twin_call.key = Some(twin_wire[1].key)
    /\ Len(twin_wire[1].key) = 16
    /\ twins[1].rotations # twins[2].rotations
    /\ twins[1].expanded_key # twins[2].expanded_key
    /\ twin_wire[1].arg = << 72, 105 >>
    /\ Len(twin_wire[1].value[1].ecb_data) = 16
    /\ twin_out[1] = Return(Some(<< 72, 105 >>))

\* C13: two instances with any parameters, given the same plaintext and key,
\* return the same from encrypt (the same ciphertext, or the same error), and
\* given the same ciphertext and key the same from decrypt; only expanded_key
\* depends on the parameters.
C13_ParametersDoNotReachCiphertext ==
    twin_call.method \in {"encrypt", "decrypt"}
    => /\ twin_out[1] = twin_out[2]
       /\ twin_wire # None => twin_wire[1].value[1] = twin_wire[1].value[2]
       /\ twins[1].key = twins[2].key

\* both instances returned the same ciphertext although their schedules differ
C13_Witness ==
    /\ twin_call.method = "encrypt"
    /\ Len(twin_call.key[1]) = 16
    /\ twin_out[1].raised = "none"
    /\ twin_out[1].value = twin_out[2].value
    /\ twins[1].expanded_key # None
    /\ twins[1].expanded_key # twins[2].expanded_key

(***************************************************************************)
(* Properties of the chromosomes as objects (SpecHeap)                     *)
(***************************************************************************)
\* the lists of the chromosomes of a sequence
ListsOfAll(cs) == UNION {ListsOf(cs[i]) : i \in 1..Len(cs)}

\* the lists of the current population, of next_generation (the copied elites
\* and the children appended so far) and of the best snapshot
KeptLists == ListsOfAll(hp_population) \cup ListsOfAll(hp_next) \cup ListsOfAll(hp_best)

\* C23: the children crossover_single_point returned hold four lists, none of
\* which is a list of a parent or of the other child, whichever branch was
\* taken; and a mutate call on a child changes no gene of a chromosome of the
\* current population, of next_generation or of the best snapshot.
C23_ChildrenShareNoList ==
    /\ [](hp_pc \in {"mutate1", "mutate2", "append"}
          => /\ Cardinality(ListsOfAll(hp_children)) = 4
             /\ ListsOfAll(hp_children) \cap ListsOfAll(hp_parents) = {}
             /\ ListsOfAll(hp_children) \cap KeptLists = {})
    /\ [][(hp_pc \in {"mutate1", "mutate2"})
            => (\A id \in KeptLists : heap'[id] = heap[id])]_vars

\* both tournaments returned the same chromosome, no crossover took place, and
\* mutate changed a rotation of child1: the parent and child2 still have theirs
C23_Witness ==
    /\ hp_pc = "append"
    /\ hp_draws.r > hp_config.crossover_rate
    /\ hp_parents[1] = hp_parents[2]
    /\ heap[hp_children[1].rotations] # heap[hp_parents[1].rotations]
    /\ heap[hp_children[2].rotations] = heap[hp_parents[1].rotations]

(***************************************************************************)
(* Properties of evolve() called twice (SpecGAAgain)                       *)
(***************************************************************************)
\* s is t or the beginning of t
IsPrefix(s, t) == Len(s) <= Len(t) /\ SubSeq(t, 1, Len(s)) = s

\* C24: the two histories have the same length in every state and only grow:
\* every step leaves the recorded entries in place, the start of a second
\* evolve() included; when the second evolve() returns, each history has
\* 2 * num_generations entries and get_evolution_history() reports the
\* generations 1 .. 2 * num_generations.
C24_HistoriesOnlyGrow ==
    /\ [](Len(best_fitness_history) = Len(avg_fitness_history))
    /\ [][/\ IsPrefix(best_fitness_history, best_fitness_history')
          /\ IsPrefix(avg_fitness_history, avg_fitness_history')
          /\ (pc' = "done" /\ returned # None)
               => /\ Len(best_fitness_history') = 2 * config.num_generations
                  /\ Len(avg_fitness_history') = 2 * config.num_generations
                  /\ get_evolution_history'.generations
                       = [i \in 1..(2 * config.num_generations) |-> i]
                  /\ get_evolution_history'.best_fitness = best_fitness_history'
                  /\ get_evolution_history'.avg_fitness = avg_fitness_history']_vars

\* the second evolve() of an engine with 2 generations has returned: 4 entries
C24_Witness ==
    /\ pc = "done"
    /\ config.num_generations = 2
    /\ Len(best_fitness_history) = 4
    /\ get_evolution_history.generations = << 1, 2, 3, 4 >>

(***************************************************************************)
(* Properties of evolve() on a population smaller than a tournament        *)
(* (SpecGA)                                                                *)
(***************************************************************************)
\* C25: with population_size < 3 and elitism_count < population_size the first
\* selection_tournament of evolve() raises instead of returning a parent:
\* evolve() gets no further than the selection of generation 0, ends there by
\* the exception with exactly one entry in each history, and returns nothing.
C25_SmallPopulationAborts ==
    ( /\ config.population_size < TournamentSize
      /\ config.elitism_count < config.population_size )
    => /\ pc \in {"initialize", "evaluate_initial", "generation", "select", "raised"}
       /\ parents = None /\ children = None
       /\ returned = None
       /\ generation = 0
       /\ pc = "select"
            => /\ Len(best_fitness_history) = 1
               /\ Len(next_generation) = config.elitism_count
       /\ pc = "raised"
            => /\ Len(best_fitness_history) = 1
               /\ Len(avg_fitness_history) = 1
               /\ best_chromosome # None
               /\ Len(next_generation) = config.elitism_count

\* evolve() of a population of 2 with 1 elite and 2 generations has raised
C25_Witness ==
    /\ config.population_size = 2 /\ config.elitism_count = 1
    /\ config.num_generations = 2
    /\ pc = "raised"
    /\ Len(best_fitness_history) = 1
    /\ returned = None

(***************************************************************************)
(* Properties of the round constants (SpecTwin)                            *)
(***************************************************************************)
\* the two instances differ in the rcon multiplier of round 7 only, one having
\* 1 and the other 3
DifferInRound7Multiplier ==
    /\ twins[1].rotations = twins[2].rotations
    /\ Len(twins[1].rcon_multipliers) = 10 /\ Len(twins[2].rcon_multipliers) = 10
    /\ \A i \in 1..10 :
          i # 8 => twins[1].rcon_multipliers[i] = twins[2].rcon_multipliers[i]
    /\ {twins[1].rcon_multipliers[8], twins[2].rcon_multipliers[8]} = {1, 3}

\* C26: for every round 0..9 and multiplier 1..3 the round constant
\* (RCON[round] * multiplier) mod 256 is a byte; it is 0 exactly for round 7 and
\* multiplier 2; in round 7 the multipliers 1 and 3 give the same constant 0x80,
\* so two instances that differ only in that gene, 1 against 3, hold the same
\* schedule after every call, of 176 bytes for a 16-byte key.
C26_Round7MultiplierWraps ==
    /\ \A r \in 0..9, m \in 1..3 :
          /\ rcon_value(r, m) \in 0..255
          /\ rcon_value(r, m) = 0 <=> (r = 7 /\ m = 2)
    /\ rcon_value(7, 1) = 128 /\ rcon_value(7, 3) = 128
    /\ (DifferInRound7Multiplier /\ twin_call.method \in {"encrypt", "decrypt"})
         => /\ twins[1].expanded_key = twins[2].expanded_key
            /\ Len(twin_call.key[1]) = 16
                 => /\ twins[1].expanded_key # None
                    /\ Len(twins[1].expanded_key[1]) = 176

\* multiplier 3 and multiplier 1 in round 7, a 16-byte key: one schedule, which
\* is not the one of multiplier 2 everywhere
C26_Witness ==
    /\ DifferInRound7Multiplier
    /\ twin_call.method = "encrypt"
    /\ Len(twin_call.key[1]) = 16
    /\ twins[1].expanded_key # None
    /\ twins[1].expanded_key = twins[2].expanded_key
    /\ twins[1].expanded_key
         # custom_key_expansion(twin_call.key[1], twins[1].rotations,
                                [i \in 1..10 |-> 2]).value

(***************************************************************************)
(* Properties of calculate_avalanche_effect (SpecAval)                     *)
(***************************************************************************)
\* the bytes in which two sequences of equal length differ
DifferingBytes(a, b) == {i \in 1..Len(a) : a[i] # b[i]}

\* C27: every trial encrypts a 16-byte plaintext and a copy that differs from
\* it in one bit of one byte; each ciphertext has two blocks, 32 bytes, and the
\* second blocks are equal, so at most 128 of the 256 bits counted differ: each
\* percentage, and the mean returned, is at most 50 (in 1/100 percent: 5000).
C27_AvalancheAtMostHalf ==
    /\ av_trial # None
         => LET plaintext == av_trial[1][1]
                modified  == av_trial[1][2]
                ct1       == av_trial[1][3]
                ct2       == av_trial[1][4]
                diff      == av_trial[1][5]
                total     == av_trial[1][6]
            IN  /\ Len(plaintext) = 16 /\ Len(modified) = 16
                /\ \E i \in 1..16, b \in 0..7 :
                      /\ DifferingBytes(plaintext, modified) = {i}
                      /\ Xor(plaintext[i], modified[i]) = 2^b
                /\ Len(ct1.ecb_data) = 32 /\ Len(ct2.ecb_data) = 32
                /\ Blocks(ct1.ecb_data)[2] = Blocks(ct2.ecb_data)[2]
                /\ Blocks(ct1.ecb_data)[1] # Blocks(ct2.ecb_data)[1]
                /\ total = 256
                /\ diff \in 1..128
    /\ \A i \in 1..Len(av_percentages) : av_percentages[i] <= 5000
    /\ av_result # None => av_result[1][1] <= 5000

\* two trials in which all 128 bits of the first block differed: the mean
\* returned is 50 percent, with deviation 0
C27_Witness ==
    /\ av_num_tests = 2
    /\ av_result = Some(<< 5000, 0 >>)
    /\ av_trial[1][5] = 128

(***************************************************************************)
(* Properties of IntegrationClient.send_message (SpecClient)               *)
(***************************************************************************)
\* the sockets of the call that are still open
OpenSockets == {i \in 1..Len(ic_sockets) : ic_sockets[i] = "open"}

\* C28: a send_message call makes at most retry_count attempts; every attempt
\* but the last one made ended with a ConnectionRefusedError and was not the
\* final one; the call returns None when the final attempt is refused and
\* after any other exception, which ends the call at once; every socket is
\* closed when the call has returned; a success adds one latency and one to
\* messages_sent, nothing else changes either, and messages_sent =
\* len(latencies) throughout.
C28_SendMessageRetries ==
    /\ [](/\ Len(ic_sockets) <= ic_retry_count
          /\ Len(ic_outcomes) <= Len(ic_sockets)
          /\ \A i \in 1..(Len(ic_outcomes) - 1) :
                ic_outcomes[i] = "refused" /\ i < ic_retry_count
          /\ ic_messages_sent = Len(ic_latencies)
          /\ Cardinality(OpenSockets) <= 1
          /\ ic_pc = "returned"
               => /\ OpenSockets = {}
                  /\ Len(ic_outcomes) = Len(ic_sockets)
                  /\ ic_result # None
                  /\ (ic_outcomes = << >>) => (ic_retry_count = 0 /\ ic_result = Some(None))
                  /\ (ic_outcomes # << >>)
                       => LET last == ic_outcomes[Len(ic_outcomes)]
                          IN  /\ (last = "refused")
                                   => /\ Len(ic_outcomes) = ic_retry_count
                                      /\ ic_result = Some(None)
                              /\ (last \in {"error", "report_error"})
                                   => ic_result = Some(None)
                              /\ (last = "success")
                                   => ic_result = Some(ic_latencies[Len(ic_latencies)]))
    /\ [][/\ (ic_latencies' # ic_latencies \/ ic_messages_sent' # ic_messages_sent)
             => /\ ic_pc = "try"
                /\ ic_outcomes'[Len(ic_outcomes')] \in {"success", "report_error"}
                /\ Len(ic_latencies') = Len(ic_latencies) + 1
                /\ SubSeq(ic_latencies', 1, Len(ic_latencies)) = ic_latencies
                /\ ic_messages_sent' = ic_messages_sent + 1
          /\ (ic_pc = "try" /\ ic_outcomes'[Len(ic_outcomes')] = "success")
             => Len(ic_latencies') = Len(ic_latencies) + 1]_vars

\* a call with retry_count = 3 whose first two attempts were refused and whose
\* third succeeded, after an earlier call that gave up
C28_Witness ==
    /\ ic_pc = "returned"
    /\ ic_calls = 2
    /\ ic_retry_count = 3
    /\ ic_outcomes = << "refused", "refused", "success" >>
    /\ ic_sockets = << "closed", "closed", "closed" >>
    /\ ic_messages_sent = 1
    /\ ic_result = Some(ic_latencies[1])

(***************************************************************************)
(* Properties of the concurrent run (SpecServer)                           *)
(***************************************************************************)
\* the records of server.metrics that client c's requests appended
RecordsOf(ms, c) == SelectSeq(ms, LAMBDA m : m[1] = c)

\* the requests of client c whose record has been written
Stored(c) ==
    (th_msg[c] - 1) + (IF th_pc[c] \in {"release", "result", "done"} THEN 1 ELSE 0)

\* the requests of client c whose result the client has appended
Answered(c) == (th_msg[c] - 1) + (IF th_pc[c] = "done" THEN 1 ELSE 0)

\* C29: under every interleaving of the client threads no decryption fails,
\* and server.metrics holds, for every client, exactly one record of each of
\* its requests that got as far as the append, in the order of the requests:
\* none is lost, none is there twice. Once the threads are joined,
\* server.metrics holds N * M records and every client's results M.
C29_NoMetricLostOrDuplicated ==
    /\ \A c \in DOMAIN th_pc :
          /\ th_pc[c] # "raised"
          /\ (th_pc[c] \in {"acquire", "load", "store", "release", "result", "done"})
                => th_metrics[c] = Some(<< c, th_msg[c] >>)
          /\ RecordsOf(sv_metrics, c) = [n \in 1..Stored(c) |-> << c, n >>]
          /\ cl_results[c] = [n \in 1..Answered(c) |-> << c, << c, n >> >>]
    /\ Len(sv_metrics) <= NumClients * MsgsPerClient
    /\ rt_out # None
         => /\ Len(rt_out[1][2]) = NumClients * MsgsPerClient
            /\ rt_out[1][2] = sv_metrics
            /\ Len(rt_out[1][1]) = NumClients * MsgsPerClient
            /\ \A c \in Clients : Len(cl_results[c]) = MsgsPerClient

\* the run has been collected, and the records of the two clients alternate in
\* server.metrics: the threads did interleave
C29_Witness ==
    /\ rt_out # None
    /\ Len(sv_metrics) = 4
    /\ sv_metrics[1][1] = 2 /\ sv_metrics[2][1] = 1
    /\ sv_metrics[3][1] = 2 /\ sv_metrics[4][1] = 1

(***************************************************************************)
(* Properties of PacketTracerBridge (SpecBridge)                           *)
(***************************************************************************)
RECURSIVE SumOfSizes(_)
\* the sum of the payload sizes of a list of packets
SumOfSizes(packets) ==
    IF packets = << >> THEN 0
    ELSE Len(packets[1].payload) + SumOfSizes(Tail(packets))

\* C30: after any sequence of send_packet and receive_packet calls,
\* statistics.total_packets is the number of packets in packets_sent and
\* statistics.total_bytes the sum of their payload sizes; a receive_packet
\* call changes no statistic and no sent packet; get_statistics called with
\* no packet sent reports the average latency 0.
C30_StatisticsMatchPacketsSent ==
    /\ []((br_statistics # None)
            => /\ br_statistics.total_packets = Len(br_packets_sent)
               /\ br_statistics.total_bytes = SumOfSizes(br_packets_sent)
               /\ (br_call = Some("get_statistics") /\ br_packets_sent = << >>)
                     => br_result[1].average_latency_ms = 0)
    /\ [][(br_packets_received' # br_packets_received)
            => /\ br_statistics' = br_statistics
               /\ br_packets_sent' = br_packets_sent]_vars

\* packets of 16 and 32 bytes were sent, one was received, and get_statistics
\* reported 2 packets and 48 bytes
C30_Witness ==
    /\ br_call = Some("get_statistics")
    /\ Len(br_packets_sent) = 2
    /\ Len(br_packets_received) = 1
    /\ br_result[1].total_packets = 2
    /\ br_result[1].total_bytes = 48
    /\ br_result[1].average_latency_ms > 0

====
